---- MODULE Spec2Model ----
(***************************************************************************)
(* Model of the scheduling backend of ai-scheduling-agent (src/tools.py):  *)
(* the employee filter, the dispatcher build_schedule, the greedy assigner *)
(* build_basic_schedule and the CP-SAT model built by                      *)
(* build_optimized_schedule_cp.                                            *)
(*                                                                         *)
(* Python dicts are TLA+ functions whose DOMAIN is the set of keys that    *)
(* are present, so an absent key is really absent.  Dicts that the code    *)
(* shares or copies (shift definitions, employee records) live in a heap   *)
(* and are named by object identifiers, so that aliasing is visible.       *)
(***************************************************************************)
EXTENDS Integers, Sequences, FiniteSets, TLC

(***************************************************************************)
(* Bounds of the checked instances.                                        *)
(***************************************************************************)
\* largest number of employees of a schema
NumEmployees == 2
\* largest number of calls made on one schema
MaxCalls == 2

(***************************************************************************)
(* Python dict access.                                                     *)
(***************************************************************************)
\* d.get(k, default)
Get(d, k, default) == IF k \in DOMAIN d THEN d[k] ELSE default

\* the dict after d.setdefault(k, v)
SetDefault(d, k, v) == IF k \in DOMAIN d THEN d ELSE (k :> v) @@ d

\* the set of elements of a list
Range(s) == {s[i] : i \in DOMAIN s}

(***************************************************************************)
(* IEEE-754 binary64 arithmetic of the expression                          *)
(*     (work_percentage / 100) * total_hours                               *)
(* A positive double is [m, e]: m = <<1, l1, l2, l3, l4>> is its 53-bit    *)
(* significand, the leading 1 followed by four limbs of 13 bits, and e is  *)
(* the exponent of the leading bit, so the value is                        *)
(*     (2^52 + l1 * 2^39 + l2 * 2^26 + l3 * 2^13 + l4) * 2^(e - 52).       *)
(* Zero is the empty significand.  Both operations round to nearest, ties  *)
(* to even, as the hardware does.                                          *)
(***************************************************************************)
LimbBits == 13

RECURSIVE Pow2(_)
Pow2(n) == IF n = 0 THEN 1 ELSE 2 * Pow2(n - 1)

LimbBase == Pow2(LimbBits)

FloatZero == [m |-> <<>>, e |-> 0]

RECURSIVE Normalize(_, _, _)
\* scales num / den by powers of two until den <= num < 2 * den
Normalize(num, den, e) ==
    IF num < den THEN Normalize(2 * num, den, e - 1)
    ELSE IF num >= 2 * den THEN Normalize(num, 2 * den, e + 1)
    ELSE [num |-> num, den |-> den, e |-> e]

RECURSIVE DivLimbs(_, _, _, _)
\* n more quotient limbs of rem / den by long division
DivLimbs(limbs, rem, den, n) ==
    IF n = 0 THEN [limbs |-> limbs, rem |-> rem]
    ELSE DivLimbs(Append(limbs, (rem * LimbBase) \div den),
                  (rem * LimbBase) % den, den, n - 1)

RECURSIVE IncLimbs(_, _)
\* the significand plus one unit in the last place, carried up from limb i
IncLimbs(m, i) ==
    IF i = 1 THEN [m EXCEPT ![1] = 2]
    ELSE IF m[i] + 1 < LimbBase THEN [m EXCEPT ![i] = m[i] + 1]
    ELSE IncLimbs([m EXCEPT ![i] = 0], i - 1)

\* the double of significand m and exponent e, rounded up by one ulp or not
Rounded(m, e, up) ==
    IF ~up THEN [m |-> m, e |-> e]
    ELSE LET inc == IncLimbs(m, Len(m))
         IN  IF inc[1] = 2
             THEN [m |-> [inc EXCEPT ![1] = 1], e |-> e + 1]
             ELSE [m |-> inc, e |-> e]

\* float(a) / float(b) for integers a >= 0, b > 0 (Python's a / b)
FloatDiv(a, b) ==
    IF a = 0 THEN FloatZero
    ELSE LET n == Normalize(a, b, 0)
             q == DivLimbs(<<1>>, n.num - n.den, n.den, 4)
             up == \/ 2 * q.rem > n.den
                   \/ 2 * q.rem = n.den /\ q.limbs[5] % 2 = 1
         IN  Rounded(q.limbs, n.e, up)

RECURSIVE BitLength(_)
\* the number of binary digits of t >= 1, less one
BitLength(t) == IF t < 2 THEN 0 ELSE 1 + BitLength(t \div 2)

\* f * float(k) for a double f >= 0 and an integer 0 <= k < 2^13
FloatMul(f, k) ==
    IF f.m = <<>> \/ k = 0 THEN FloatZero
    ELSE LET v4 == f.m[5] * k
             v3 == f.m[4] * k + v4 \div LimbBase
             v2 == f.m[3] * k + v3 \div LimbBase
             v1 == f.m[2] * k + v2 \div LimbBase
             top == k + v1 \div LimbBase
             \* the exact product: top, then four limbs
             p == <<top, v1 % LimbBase, v2 % LimbBase, v3 % LimbBase,
                    v4 % LimbBase>>
             \* shift right by n bits to bring the leading 1 back on top
             n == BitLength(top)
             lo == Pow2(n)
             hi == Pow2(LimbBits - n)
             s == [i \in 1..5 |->
                      IF i = 1 THEN 1
                      ELSE (p[i - 1] % lo) * hi + p[i] \div lo]
             dropped == p[5] % lo
             up == /\ n > 0
                   /\ \/ 2 * dropped > lo
                      \/ 2 * dropped = lo /\ s[5] % 2 = 1
         IN  Rounded(s, f.e + n, up)

\* int(f): truncation of a double 0 <= f < 2^27
FloatToInt(f) ==
    IF f.m = <<>> \/ f.e < 0 THEN 0
    ELSE IF f.e <= LimbBits
         THEN Pow2(f.e) + f.m[2] \div Pow2(LimbBits - f.e)
         ELSE Pow2(f.e) + f.m[2] * Pow2(f.e - LimbBits)
                        + f.m[3] \div Pow2(2 * LimbBits - f.e)

\* whether the double 0 <= f < 2^27 has a fractional part
HasFraction(f) ==
    /\ f.m # <<>>
    /\ \/ f.e < 0
       \/ f.m[5] # 0
       \/ f.m[4] # 0
       \/ IF f.e <= LimbBits
          THEN f.m[3] # 0 \/ f.m[2] % Pow2(LimbBits - f.e) # 0
          ELSE f.m[3] % Pow2(2 * LimbBits - f.e) # 0

\* a < f for an integer a and a double f >= 0
IntLessFloat(a, f) ==
    \/ a < FloatToInt(f)
    \/ a = FloatToInt(f) /\ HasFraction(f)

\* a <= f for an integer a and a double f >= 0
IntLeqFloat(a, f) == a <= FloatToInt(f)

\* a >= f for an integer a and a double f >= 0
IntGeqFloat(a, f) == ~IntLessFloat(a, f)

(***************************************************************************)
(* Schemas.  A schema is a dict with the keys "employees" and              *)
(* "shift_structure", lists of object identifiers, and "days", a list of   *)
(* day names.  heap maps an object identifier to the dict it names.        *)
(***************************************************************************)
\* the default of schema.get("days", ...)
DefaultDays == <<"Monday", "Tuesday", "Wednesday", "Thursday", "Friday",
                 "Saturday", "Sunday">>

\* the list of employee dicts of schema sch in heap h
EmployeesOf(sch, h) == [i \in 1..Len(sch.employees) |-> h[sch.employees[i]]]

\* the list of shift dicts of schema sch in heap h
ShiftsOf(sch, h) ==
    [i \in 1..Len(sch.shift_structure) |-> h[sch.shift_structure[i]]]

\* a faulty default of days that stops on Friday; C14 tells it from DaysOf
DaysOfWorkingWeek(sch) == Get(sch, "days", SubSeq(DefaultDays, 1, 5))

\* schema.get("days", [...])
DaysOf(sch) == Get(sch, "days", DefaultDays)

\* employee.get("availability", {}).get(key, [])
Unavailable(employee, key) ==
    Range(Get(Get(employee, "availability", <<>>), key, <<>>))

RECURSIVE SeqSum(_)
\* sum(s) of a list of integers
SeqSum(s) == IF s = <<>> THEN 0 ELSE Head(s) + SeqSum(Tail(s))

\* min(a, b)
Min(a, b) == IF a <= b THEN a ELSE b

(***************************************************************************)
(* Keyword arguments of build_schedule and build_optimized_schedule_cp.    *)
(* A call's arguments are a dict; an argument that is not passed takes     *)
(* the default of the signature.                                           *)
(***************************************************************************)
ArgDefaults ==
    [method |-> "cp", fairness |-> TRUE, rest_constraint |-> TRUE,
     seniority |-> FALSE, fairness_weight |-> 1,
     relax_work_percentage |-> FALSE, relax_coverage |-> FALSE,
     relax_availability |-> FALSE]

Arg(args, k) == Get(args, k, ArgDefaults[k])

(***************************************************************************)
(* The CP-SAT model of build_optimized_schedule_cp.  The decision          *)
(* variables X[e, d, s] are a list X with one row per employee: X[e] is    *)
(* the set of slots <<d, s>> with X[e, d, s] = 1.  Days, shifts and        *)
(* employees are numbered from 1.                                          *)
(***************************************************************************)
\* the index set of the variables of one employee
Slots(shifts, days) == (1..Len(days)) \X (1..Len(shifts))

\* the employees whose variable for slot <<d, s>> is 1
Assigned(X, d, s) == {e \in DOMAIN X : <<d, s>> \in X[e]}

\* a faulty shift coverage that asks for one employee per slot whatever
\* min_staff says; C2 tells it from CoverageConstraint
CoverageConstraintAnyStaff(X, shifts, days, args) ==
    \A d \in 1..Len(days), s \in 1..Len(shifts) :
        \/ Arg(args, "relax_coverage")
        \/ Cardinality(Assigned(X, d, s)) >= 1

\* 1. shift coverage
CoverageConstraint(X, shifts, days, args) ==
    \A d \in 1..Len(days), s \in 1..Len(shifts) :
        \/ Arg(args, "relax_coverage")
        \/ Cardinality(Assigned(X, d, s)) >= Get(shifts[s], "min_staff", 1)

\* a faulty availability that forgets unavailable_times; C5 tells it from
\* AvailabilityConstraint
AvailabilityConstraintDaysOnly(row, employee, shifts, days, args) ==
    ~Arg(args, "relax_availability") =>
        \A d \in 1..Len(days), s \in 1..Len(shifts) :
            days[d] \in Unavailable(employee, "unavailable_days")
            => <<d, s>> \notin row

\* 2. availability of one employee
AvailabilityConstraint(row, employee, shifts, days, args) ==
    ~Arg(args, "relax_availability") =>
        \A d \in 1..Len(days), s \in 1..Len(shifts) :
            (\/ days[d] \in Unavailable(employee, "unavailable_days")
             \/ shifts[s].name \in Unavailable(employee, "unavailable_times"))
            => <<d, s>> \notin row

\* a faulty role coverage that counts every assigned employee, with the
\* role or not; C6 tells it from RoleCoverageConstraint
RoleCoverageAnyEmployee(X, employees, shifts, days) ==
    \A d \in 1..Len(days), s \in 1..Len(shifts) :
        LET required == Get(shifts[s], "required_roles", <<>>)
        IN  \A role \in DOMAIN required :
                Cardinality(Assigned(X, d, s)) >= required[role]

\* 2b. role coverage per shift
RoleCoverageConstraint(X, employees, shifts, days) ==
    \A d \in 1..Len(days), s \in 1..Len(shifts) :
        LET required == Get(shifts[s], "required_roles", <<>>)
        IN  \A role \in DOMAIN required :
                Cardinality({e \in Assigned(X, d, s) :
                    role \in Range(Get(employees[e], "roles_primary", <<>>))})
                >= required[role]

\* a faulty rest period that stops at the end of each day; C3 tells it from
\* RestConstraint
RestConstraintWithinDay(row, shifts, days, args) ==
    (Arg(args, "rest_constraint") /\ Len(shifts) > 1) =>
        \A d \in 1..Len(days), s \in 1..(Len(shifts) - 1) :
            ~(<<d, s>> \in row /\ <<d, s + 1>> \in row)

\* 2c. rest period of one employee: no two adjacent shifts
RestConstraint(row, shifts, days, args) ==
    (Arg(args, "rest_constraint") /\ Len(shifts) > 1) =>
        LET n_shifts == Len(shifts)
        IN  \A d \in 1..Len(days), s \in 1..n_shifts :
                LET nxt_day == IF s < n_shifts THEN d ELSE d + 1
                    nxt_shift == (s % n_shifts) + 1
                IN  \/ nxt_day > Len(days)
                    \/ ~(<<d, s>> \in row /\ <<nxt_day, nxt_shift>> \in row)

\* whether an employee counts as senior
IsSenior(employee) ==
    Get(employee, "senior", FALSE) \/ Get(employee, "experience_years", 0) >= 3

\* a seniority rule that starts one head later, at min_staff > 3
SeniorityConstraintAboveThree(X, employees, shifts, days, args) ==
    Arg(args, "seniority") =>
        \A d \in 1..Len(days), s \in 1..Len(shifts) :
            \/ Get(shifts[s], "min_staff", 1) <= 3
            \/ \E e \in Assigned(X, d, s) : IsSenior(employees[e])

\* 2d. seniority
SeniorityConstraint(X, employees, shifts, days, args) ==
    Arg(args, "seniority") =>
        \A d \in 1..Len(days), s \in 1..Len(shifts) :
            \/ Get(shifts[s], "min_staff", 1) <= 2
            \/ \E e \in Assigned(X, d, s) : IsSenior(employees[e])

\* hours; realistic full-time cap
weekly_cap == 40

\* total hours the schedule actually requires
total_schedule_hours(shifts, days) ==
    Len(days) * SeqSum([s \in 1..Len(shifts) |-> shifts[s].hours])

\* min(int((work_percentage / 100) * total_schedule_hours), weekly_cap)
target_hours_cp(employee, total) ==
    Min(FloatToInt(FloatMul(FloatDiv(Get(employee, "work_percentage", 100),
                                     100), total)),
        weekly_cap)

\* the hours of the shifts of a row
total_assigned_hours(row, shifts) ==
    SeqSum([s \in 1..Len(shifts) |->
               shifts[s].hours * Cardinality({sl \in row : sl[2] = s})])

\* 3. work percentage of one employee with target hours target and assigned
\*    hours assigned; 0.95 and 1.05 are the doubles nearest to 95/100 and
\*    105/100
WorkPercentageConstraint(assigned, target, args) ==
    IF Arg(args, "relax_work_percentage")
    THEN /\ IntGeqFloat(assigned, FloatMul(FloatDiv(95, 100), target))
         /\ IntLeqFloat(assigned, FloatMul(FloatDiv(105, 100), target))
    ELSE assigned = target

\* the rows of one employee that meet the constraints on that employee alone
Rows(employee, shifts, days, args) ==
    LET target == target_hours_cp(employee, total_schedule_hours(shifts, days))
    IN  {row \in SUBSET Slots(shifts, days) :
            /\ WorkPercentageConstraint(total_assigned_hours(row, shifts),
                                        target, args)
            /\ AvailabilityConstraint(row, employee, shifts, days, args)
            /\ RestConstraint(row, shifts, days, args)}

RECURSIVE RowProduct(_, _, _, _, _)
\* the lists of n rows, the e-th one a row of employee e
RowProduct(n, employees, shifts, days, args) ==
    IF n = 0 THEN {<<>>}
    ELSE LET rows == Rows(employees[n], shifts, days, args)
         IN  {Append(X, row) :
                 X \in RowProduct(n - 1, employees, shifts, days, args),
                 row \in rows}

\* the assignments that satisfy every constraint posted on the model
Feasible(employees, shifts, days, args) ==
    {X \in RowProduct(Len(employees), employees, shifts, days, args) :
        /\ CoverageConstraint(X, shifts, days, args)
        /\ RoleCoverageConstraint(X, employees, shifts, days)
        /\ SeniorityConstraint(X, employees, shifts, days, args)}

\* staff_d: the head count of day d
staff_per_day(X, d) == SeqSum([e \in DOMAIN X |->
                                 Cardinality({sl \in X[e] : sl[1] = d})])

\* max - min of the daily head counts (0 over an empty horizon)
Spread(X, days) ==
    IF days = <<>> THEN 0
    ELSE LET counts == {staff_per_day(X, d) : d \in 1..Len(days)}
             hi == CHOOSE c \in counts : \A o \in counts : o <= c
             lo == CHOOSE c \in counts : \A o \in counts : c <= o
         IN  hi - lo

\* an objective that balances the number of shifts per employee
ObjectivePerEmployee(X, employees, shifts, days, args) ==
    LET counts == {Cardinality(X[e]) : e \in DOMAIN X}
    IN  IF counts = {} THEN 0
        ELSE LET hi == CHOOSE c \in counts : \A o \in counts : o <= c
                 lo == CHOOSE c \in counts : \A o \in counts : c <= o
             IN  (hi - lo) * Arg(args, "fairness_weight")

\* an objective that heeds the spread under the default weight only
ObjectiveDefaultWeightOnly(X, employees, shifts, days, args) ==
    IF Arg(args, "fairness_weight") = 1 THEN Spread(X, days) ELSE 0

\* the least value of spread * fairness_weight that the variables max_staff,
\* min_staff and spread (each in 0..max_poss) can take beside assignment X
Objective(X, employees, shifts, days, args) ==
    LET w == Arg(args, "fairness_weight")
        max_poss == Len(employees) * Len(shifts)
    IN  IF w >= 0 THEN Spread(X, days) * w ELSE max_poss * w

\* the assignments of the set feasible that the solver may return with
\* status OPTIMAL: all of them without an objective, else the minimisers
Optimal(feasible, employees, shifts, days, args) ==
    IF ~Arg(args, "fairness") \/ feasible = {} THEN feasible
    ELSE LET values == {Objective(X, employees, shifts, days, args) :
                           X \in feasible}
             best == CHOOSE v \in values : \A o \in values : v <= o
         IN  {X \in feasible :
                 Objective(X, employees, shifts, days, args) = best}

\* an output loop that visits the pairs by employee and then by shift
OutputOrderEmployeeFirst(employees, shifts) ==
    [k \in 1..(Len(shifts) * Len(employees)) |->
        <<((k - 1) % Len(shifts)) + 1, ((k - 1) \div Len(shifts)) + 1>>]

\* the (shift, employee) index pairs in the order the output loop visits them
OutputOrder(employees, shifts) ==
    [k \in 1..(Len(shifts) * Len(employees)) |->
        <<((k - 1) \div Len(employees)) + 1, ((k - 1) % Len(employees)) + 1>>]

\* the entries appended for day d, by shift and then by employee
DayEntries(X, employees, shifts, d) ==
    LET chosen == SelectSeq(OutputOrder(employees, shifts),
                            LAMBDA p : <<d, p[1]>> \in X[p[2]])
    IN  [k \in 1..Len(chosen) |->
            [shift |-> shifts[chosen[k][1]].name,
             employee |-> employees[chosen[k][2]].name]]

RECURSIVE BuildOutput(_, _, _, _, _)
\* dict(schedule) after the output loop has visited the first n days
BuildOutput(X, employees, shifts, days, n) ==
    IF n = 0 THEN <<>>
    ELSE LET before == BuildOutput(X, employees, shifts, days, n - 1)
             entries == DayEntries(X, employees, shifts, n)
         IN  IF entries = <<>> THEN before
             ELSE (days[n] :> (Get(before, days[n], <<>>) \o entries))
                  @@ before

NoFeasibleSchedule ==
    [error |-> "No feasible schedule found with current constraints."]

\* the values of solver.Solve(model)
CpSolverStatuses ==
    {"UNKNOWN", "MODEL_INVALID", "FEASIBLE", "INFEASIBLE", "OPTIMAL"}

\* a resolution that reports every failure with a shortened message
ResolutionShortMessage(status, X, employees, shifts, days) ==
    IF status \in {"OPTIMAL", "FEASIBLE"}
    THEN BuildOutput(X, employees, shifts, days, Len(days))
    ELSE [error |-> "No feasible schedule found."]

\* "if status in (cp_model.OPTIMAL, cp_model.FEASIBLE): ... else: ...": the
\* value returned for the solver's status and assignment X
Resolution(status, X, employees, shifts, days) ==
    IF status \in {"OPTIMAL", "FEASIBLE"}
    THEN BuildOutput(X, employees, shifts, days, Len(days))
    ELSE NoFeasibleSchedule

\* a defaulting that assumes a shift without min_staff needs nobody
DefaultMinStaffZero(sch, h) ==
    [id \in DOMAIN h |->
        IF id \in Range(sch.shift_structure)
        THEN SetDefault(h[id], "min_staff", 0)
        ELSE h[id]]

\* a defaulting that writes min_staff 1 on every shift, given or not
DefaultMinStaffOverwrite(sch, h) ==
    [id \in DOMAIN h |->
        IF id \in Range(sch.shift_structure)
        THEN [k \in DOMAIN h[id] \cup {"min_staff"} |->
                 IF k = "min_staff" THEN 1 ELSE h[id][k]]
        ELSE h[id]]

\* the heap after "for sh in shift_structure: sh.setdefault('min_staff', 1)"
DefaultMinStaff(sch, h) ==
    [id \in DOMAIN h |->
        IF id \in Range(sch.shift_structure)
        THEN SetDefault(h[id], "min_staff", 1)
        ELSE h[id]]

\* what a call build_optimized_schedule_cp(sch, **args) can do in heap h:
\* the heap it leaves, the solver's status, the assignment and the value
\* returned
OptimizedOutcomes(sch, h, args) ==
    LET h1 == DefaultMinStaff(sch, h)
        employees == EmployeesOf(sch, h1)
        shifts == ShiftsOf(sch, h1)
        days == DaysOf(sch)
        feasible == Feasible(employees, shifts, days, args)
        Solved(status, X) ==
            [heap |-> h1, status |-> status, X |-> X,
             result |-> Resolution(status, X, employees, shifts, days)]
    IN  IF feasible = {}
        THEN {Solved("INFEASIBLE", <<>>)}
        ELSE {Solved("OPTIMAL", X) :
                 X \in Optimal(feasible, employees, shifts, days, args)}
             \cup IF Arg(args, "fairness")
                  THEN {Solved("FEASIBLE", X) : X \in feasible}
                  ELSE {}

(***************************************************************************)
(* The greedy assigner build_basic_schedule.  Its locals are the fields of *)
(* an activation record; one step of the model is one iteration of the     *)
(* loop over shifts_to_assign.                                             *)
(***************************************************************************)
\* the employee of an unstaffed entry
None == "None"

\* the keys of employee_info in insertion order
InfoNames(employees) ==
    LET firsts == SelectSeq([i \in 1..Len(employees) |-> i],
                     LAMBDA i : \A j \in 1..(i - 1) :
                                    employees[j].name # employees[i].name)
    IN  [k \in 1..Len(firsts) |-> employees[firsts[k]].name]

\* the employee whose data employee_info[name] holds: the last of that name
InfoOf(employees, name) ==
    employees[CHOOSE i \in 1..Len(employees) :
                 /\ employees[i].name = name
                 /\ \A j \in (i + 1)..Len(employees) : employees[j].name # name]

\* shifts_to_assign before the shuffle: by day, then by shift
Tasks(shifts, days) ==
    [k \in 1..(Len(days) * Len(shifts)) |->
        LET d == ((k - 1) \div Len(shifts)) + 1
            sh == shifts[((k - 1) % Len(shifts)) + 1]
        IN  <<days[d], sh.name, sh.hours>>]

\* the locals of build_basic_schedule(sch) when it enters its loop, the
\* shuffle having put the tasks in the order perm
BasicLocals(sch, h, perm) ==
    LET employees == EmployeesOf(sch, h)
        shifts == ShiftsOf(sch, h)
        days == DaysOf(sch)
        names == InfoNames(employees)
        tasks == Tasks(shifts, days)
        total_required_hours == SeqSum([k \in 1..Len(tasks) |-> tasks[k][3]])
    IN  [pc |-> "basic_loop",
         names |-> names,
         employee_info |->
            [n \in Range(names) |->
                LET e == InfoOf(employees, n)
                IN  [work_percentage |-> Get(e, "work_percentage", 100),
                     unavailable_days |-> Unavailable(e, "unavailable_days"),
                     unavailable_times |-> Unavailable(e, "unavailable_times"),
                     assigned_hours |-> 0]],
         target_hours |->
            [n \in Range(names) |->
                FloatMul(FloatDiv(Get(InfoOf(employees, n),
                                      "work_percentage", 100), 100),
                         total_required_hours)],
         shifts_to_assign |-> [k \in 1..Len(tasks) |-> tasks[perm[k]]],
         min_staff_map |->
            [n \in {shifts[i].name : i \in 1..Len(shifts)} |->
                Get(shifts[CHOOSE i \in 1..Len(shifts) :
                              /\ shifts[i].name = n
                              /\ \A j \in (i + 1)..Len(shifts) :
                                     shifts[j].name # n],
                    "min_staff", 1)],
         schedule |-> <<>>]

\* the available workers for a task: not unavailable, not yet full
Candidates(fr, day, shift_name) ==
    SelectSeq(fr.names,
        LAMBDA n :
            /\ day \notin fr.employee_info[n].unavailable_days
            /\ shift_name \notin fr.employee_info[n].unavailable_times
            /\ IntLessFloat(fr.employee_info[n].assigned_hours,
                            fr.target_hours[n]))

\* a choice that lets a tie go to the last of the least loaded
LeastLoadedLastTie(candidates, info) ==
    candidates[CHOOSE i \in 1..Len(candidates) :
        /\ \A j \in 1..Len(candidates) :
               info[candidates[i]].assigned_hours
               <= info[candidates[j]].assigned_hours
        /\ \A j \in (i + 1)..Len(candidates) :
               info[candidates[j]].assigned_hours
               > info[candidates[i]].assigned_hours]

\* min(candidates, key=assigned_hours): the first of the least loaded
LeastLoaded(candidates, info) ==
    candidates[CHOOSE i \in 1..Len(candidates) :
        /\ \A j \in 1..Len(candidates) :
               info[candidates[i]].assigned_hours
               <= info[candidates[j]].assigned_hours
        /\ \A j \in 1..(i - 1) :
               info[candidates[j]].assigned_hours
               > info[candidates[i]].assigned_hours]

RECURSIVE PickLoopOffByOne(_, _, _, _, _, _)
\* a faulty pick loop that runs min_staff + 1 times; C1 tells it from PickLoop
PickLoopOffByOne(k, candidates, info, entries, shift_name, shift_hours) ==
    IF k < 0 THEN [info |-> info, entries |-> entries]
    ELSE IF candidates = <<>>
    THEN [info |-> info,
          entries |-> Append(entries, [shift |-> shift_name,
                                       employee |-> None])]
    ELSE LET chosen == LeastLoaded(candidates, info)
         IN  PickLoopOffByOne(k - 1,
                 SelectSeq(candidates, LAMBDA n : n # chosen),
                 [info EXCEPT ![chosen].assigned_hours = @ + shift_hours],
                 Append(entries, [shift |-> shift_name, employee |-> chosen]),
                 shift_name, shift_hours)

RECURSIVE PickLoopNoMarker(_, _, _, _, _, _)
\* a faulty pick loop that stops without an entry when the candidates run
\* out
PickLoopNoMarker(k, candidates, info, entries, shift_name, shift_hours) ==
    IF k <= 0 \/ candidates = <<>> THEN [info |-> info, entries |-> entries]
    ELSE LET chosen == LeastLoaded(candidates, info)
         IN  PickLoopNoMarker(k - 1,
                 SelectSeq(candidates, LAMBDA n : n # chosen),
                 [info EXCEPT ![chosen].assigned_hours = @ + shift_hours],
                 Append(entries, [shift |-> shift_name, employee |-> chosen]),
                 shift_name, shift_hours)

RECURSIVE PickLoop(_, _, _, _, _, _)
\* "for _ in range(k)": the entries appended and employee_info afterwards
PickLoop(k, candidates, info, entries, shift_name, shift_hours) ==
    IF k <= 0 THEN [info |-> info, entries |-> entries]
    ELSE IF candidates = <<>>
    THEN [info |-> info,
          entries |-> Append(entries, [shift |-> shift_name,
                                       employee |-> None])]
    ELSE LET chosen == LeastLoaded(candidates, info)
         IN  PickLoop(k - 1,
                 SelectSeq(candidates, LAMBDA n : n # chosen),
                 [info EXCEPT ![chosen].assigned_hours = @ + shift_hours],
                 Append(entries, [shift |-> shift_name, employee |-> chosen]),
                 shift_name, shift_hours)

\* a faulty iteration that leaves a task without candidates out of the
\* schedule; C13 and C18 tell it from BasicIteration
BasicIterationSkipsUnstaffed(fr) ==
    LET task == Head(fr.shifts_to_assign)
        day == task[1]
        shift_name == task[2]
        shift_hours == task[3]
        min_staff == fr.min_staff_map[shift_name]
        candidates == Candidates(fr, day, shift_name)
        picked ==
            IF candidates = <<>>
            THEN [info |-> fr.employee_info, entries |-> <<>>]
            ELSE PickLoop(min_staff, candidates, fr.employee_info, <<>>,
                          shift_name, shift_hours)
    IN  [fr EXCEPT
            !.shifts_to_assign = Tail(fr.shifts_to_assign),
            !.employee_info = picked.info,
            !.schedule =
                IF picked.entries = <<>> THEN fr.schedule
                ELSE (day :> (Get(fr.schedule, day, <<>>) \o picked.entries))
                     @@ fr.schedule]

\* the locals after one iteration of the loop over shifts_to_assign
BasicIteration(fr) ==
    LET task == Head(fr.shifts_to_assign)
        day == task[1]
        shift_name == task[2]
        shift_hours == task[3]
        min_staff == fr.min_staff_map[shift_name]
        candidates == Candidates(fr, day, shift_name)
        picked ==
            IF candidates = <<>>
            THEN [info |-> fr.employee_info,
                  entries |-> <<[shift |-> shift_name, employee |-> None]>>]
            ELSE PickLoop(min_staff, candidates, fr.employee_info, <<>>,
                          shift_name, shift_hours)
    IN  [fr EXCEPT
            !.shifts_to_assign = Tail(fr.shifts_to_assign),
            !.employee_info = picked.info,
            !.schedule =
                IF picked.entries = <<>> THEN fr.schedule
                ELSE (day :> (Get(fr.schedule, day, <<>>) \o picked.entries))
                     @@ fr.schedule]

RECURSIVE BasicRun(_)
\* the locals when the loop has ended
BasicRun(fr) ==
    IF fr.shifts_to_assign = <<>> THEN fr ELSE BasicRun(BasicIteration(fr))

\* the orders random.shuffle can leave n tasks in
Shuffles(n) == Permutations(1..n)

\* the values build_basic_schedule(sch) can return
BasicResults(sch, h) ==
    {BasicRun(BasicLocals(sch, h, perm)).schedule :
        perm \in Shuffles(Len(DaysOf(sch)) * Len(sch.shift_structure))}

(***************************************************************************)
(* The employee filter and the dispatcher.                                 *)
(***************************************************************************)
\* the identifier of the copy json.loads(json.dumps(...)) makes of an object.
\* The round trip rebuilds every dict and list; the schemas here hold only
\* strings, integers, booleans, lists and dicts with string keys, which it
\* gives back value for value, so a copy holds the dict of its original.
CopyOf(id) == <<id[1] \o "_copy", id[2]>>

\* a faulty filter that copies the schema dict alone, its shift definitions
\* staying the caller's; C7 tells it from FilterEmployees
FilterEmployeesNoCopy(sch, h, args) ==
    LET all == Get(sch, "employees", <<>>)
        by_wp ==
            IF "work_percentage_threshold" \in DOMAIN args
            THEN SelectSeq(all, LAMBDA id :
                     Get(h[id], "work_percentage", 100)
                     > args["work_percentage_threshold"])
            ELSE all
        employees ==
            IF "experience_threshold" \in DOMAIN args
            THEN SelectSeq(by_wp, LAMBDA id :
                     Get(h[id], "experience_years", 0)
                     > args["experience_threshold"])
            ELSE by_wp
    IN  [schema |-> [k \in DOMAIN sch \cup {"employees"} |->
                        IF k = "employees" THEN employees ELSE sch[k]],
         heap |-> h]

\* a faulty filter that keeps an employee exactly on the work_percentage
\* threshold; C9 tells it from FilterEmployees
FilterEmployeesInclusive(sch, h, args) ==
    LET all == Get(sch, "employees", <<>>)
        by_wp ==
            IF "work_percentage_threshold" \in DOMAIN args
            THEN SelectSeq(all, LAMBDA id :
                     Get(h[id], "work_percentage", 100)
                     >= args["work_percentage_threshold"])
            ELSE all
        employees ==
            IF "experience_threshold" \in DOMAIN args
            THEN SelectSeq(by_wp, LAMBDA id :
                     Get(h[id], "experience_years", 0)
                     > args["experience_threshold"])
            ELSE by_wp
        shift_ids == sch.shift_structure
        copies == [id \in {CopyOf(shift_ids[i]) : i \in 1..Len(shift_ids)} |->
                      h[CHOOSE o \in Range(shift_ids) : CopyOf(o) = id]]
        new_schema ==
            [k \in DOMAIN sch \cup {"employees"} |->
                IF k = "employees" THEN employees
                ELSE IF k = "shift_structure"
                THEN [i \in 1..Len(shift_ids) |-> CopyOf(shift_ids[i])]
                ELSE sch[k]]
    IN  [schema |-> new_schema, heap |-> copies @@ h]

\* _filter_employees(sch, wp_threshold, exp_threshold): the schema returned
\* and the heap with the objects of the deep copy.  The copies of the
\* employee records are dropped at once, new_schema["employees"] being set
\* to the list filtered from the caller's records.
FilterEmployees(sch, h, args) ==
    LET all == Get(sch, "employees", <<>>)
        by_wp ==
            IF "work_percentage_threshold" \in DOMAIN args
            THEN SelectSeq(all, LAMBDA id :
                     Get(h[id], "work_percentage", 100)
                     > args["work_percentage_threshold"])
            ELSE all
        employees ==
            IF "experience_threshold" \in DOMAIN args
            THEN SelectSeq(by_wp, LAMBDA id :
                     Get(h[id], "experience_years", 0)
                     > args["experience_threshold"])
            ELSE by_wp
        shift_ids == sch.shift_structure
        copies == [id \in {CopyOf(shift_ids[i]) : i \in 1..Len(shift_ids)} |->
                      h[CHOOSE o \in Range(shift_ids) : CopyOf(o) = id]]
        new_schema ==
            [k \in DOMAIN sch \cup {"employees"} |->
                IF k = "employees" THEN employees
                ELSE IF k = "shift_structure"
                THEN [i \in 1..Len(shift_ids) |-> CopyOf(shift_ids[i])]
                ELSE sch[k]]
    IN  [schema |-> new_schema, heap |-> copies @@ h]

\* a faulty dispatch that falls back on the optimiser; C10 tells it from
\* Dispatch
DispatchDefaultsToCp(method) ==
    IF method = "greedy" THEN "build_basic_schedule"
    ELSE "build_optimized_schedule_cp"

\* which branch of build_schedule a method value takes
Dispatch(method) ==
    IF method = "greedy" THEN "build_basic_schedule"
    ELSE IF method = "cp" THEN "build_optimized_schedule_cp"
    ELSE "unknown"

UnknownMethod(method) == [error |-> "Unknown method '" \o method \o "'"]

(***************************************************************************)
(* The validator validate_schema of tools.py.                              *)
(***************************************************************************)
\* "Employee {emp.get('name', 'Unknown')} missing employment_type."
MissingEmploymentType(emp) ==
    "Employee " \o Get(emp, "name", "Unknown") \o " missing employment_type."

\* the warnings appended for one employee record
EmployeeWarnings(emp) ==
    (IF "name" \notin DOMAIN emp
     THEN <<"One employee missing name.">> ELSE <<>>)
    \o (IF "employment_type" \notin DOMAIN emp
        THEN <<MissingEmploymentType(emp)>> ELSE <<>>)

RECURSIVE EmployeeChecks(_, _)
\* the warnings of "for emp in schema_data.get('employees', [])" over the
\* first n employees
EmployeeChecks(emps, n) ==
    IF n = 0 THEN <<>>
    ELSE EmployeeChecks(emps, n - 1) \o EmployeeWarnings(emps[n])

\* the list validate_schema(sch) returns, sch being a schema of heap h
validate_schema(sch, h) ==
    LET emps == [i \in 1..Len(Get(sch, "employees", <<>>)) |->
                    h[sch.employees[i]]]
    IN  (IF "company_name" \notin DOMAIN sch
         THEN <<"Missing company_name.">> ELSE <<>>)
        \o (IF "opening_hours" \notin DOMAIN sch
            THEN <<"Missing opening_hours.">> ELSE <<>>)
        \o (IF "employees" \notin DOMAIN sch \/ sch["employees"] = <<>>
            THEN <<"Missing or empty employees list.">> ELSE <<>>)
        \o (IF "shift_structure" \notin DOMAIN sch
            THEN <<"Missing shift_structure.">> ELSE <<>>)
        \o EmployeeChecks(emps, Len(emps))

\* a faulty validator that writes a default shift_structure into the schema
\* it is given when there is none; C12 tells it from ValidateOutcome
ValidateOutcomeDefaulting(sch, h) ==
    [warnings |-> validate_schema(sch, h),
     schema |-> IF "shift_structure" \in DOMAIN sch THEN sch
                ELSE ("shift_structure" :> <<>>) @@ sch,
     heap |-> h]

\* what a call validate_schema(sch) does in heap h: the list returned, and
\* the schema and the heap it leaves, which it only reads
ValidateOutcome(sch, h) ==
    [warnings |-> validate_schema(sch, h), schema |-> sch, heap |-> h]

(***************************************************************************)
(* The state.                                                              *)
(***************************************************************************)
VARIABLES
    schema,    \* the caller's schema
    heap,      \* the dict each object identifier names
    args,      \* the keyword arguments of the call: the current or last one
    frame,     \* the activation record of the running build_basic_schedule
    filtered,  \* filtered_schema of the last build_schedule call
    result,    \* the value the last call returned
    solver,    \* the status and the assignment of the last CP-SAT solve
    invoked,   \* the functions the last call entered, in order
    ncalls,    \* the number of calls made so far
    chat       \* self.chat of the ConversationalScheduler

vars == <<schema, heap, args, frame, filtered, result, solver, invoked, ncalls,
          chat>>

Idle == [pc |-> "idle"]
NoResult == [no_result |-> TRUE]
NoSolve == [status |-> "NONE", X |-> <<>>]
NoSchema == [employees |-> <<>>, shift_structure |-> <<>>]

(***************************************************************************)
(* The schemas and arguments the checks draw from.                         *)
(***************************************************************************)
EmployeeNames == <<"Anna", "James", "Sophia", "Liam">>

\* the horizon of the checked schemas: two days, so that the last shift of a
\* day has a next day
HorizonDays == <<"Monday", "Tuesday">>

\* the employee list made of the optional fields in profiles, one per employee
EmployeeList(profiles) ==
    [i \in 1..Len(profiles) |->
        ("name" :> EmployeeNames[i]) @@ ("employment_type" :> "part-time")
        @@ profiles[i]]

\* the employee lists of at most NumEmployees employees over a set of profiles
EmployeeLists(profiles) ==
    {EmployeeList(p) :
        p \in UNION {[1..n -> profiles] : n \in 0..NumEmployees}}

\* a schema value: its objects are allocated by Allocate
SchemaValue(employees, shifts) ==
    [employees |-> employees, shift_structure |-> shifts, days |-> HorizonDays]

\* the caller's schema and heap for a schema value
Allocate(v) ==
    [schema |->
        [v EXCEPT
            !.employees = [i \in 1..Len(v.employees) |-> <<"employee", i>>],
            !.shift_structure =
                [i \in 1..Len(v.shift_structure) |-> <<"shift", i>>]],
     heap |->
        [id \in {<<"employee", i>> : i \in 1..Len(v.employees)}
                \cup {<<"shift", i>> : i \in 1..Len(v.shift_structure)} |->
            IF id[1] = "employee" THEN v.employees[id[2]]
            ELSE v.shift_structure[id[2]]]]

\* the state before the first call on schema value v with arguments a
InitWith(v, a) ==
    /\ schema = Allocate(v).schema
    /\ heap = Allocate(v).heap
    /\ args = a
    /\ frame = Idle
    /\ filtered = NoSchema
    /\ result = NoResult
    /\ solver = NoSolve
    /\ invoked = <<>>
    /\ ncalls = 0
    /\ chat = <<>>

(***************************************************************************)
(* Direct calls of build_optimized_schedule_cp(schema, **args), as the     *)
(* module's own test run makes them.                                       *)
(***************************************************************************)
\* build_optimized_schedule_cp(schema, **args) on the caller's schema
OptimizedCall ==
    /\ frame.pc = "idle"
    /\ ncalls = 0
    /\ \E o \in OptimizedOutcomes(schema, heap, args) :
        /\ heap' = o.heap
        /\ solver' = [status |-> o.status, X |-> o.X]
        /\ result' = o.result
    /\ invoked' = <<"build_optimized_schedule_cp">>
    /\ ncalls' = ncalls + 1
    /\ UNCHANGED <<chat, schema, args, frame, filtered>>

\* optional employee fields of the schemas the solver is checked on
CpProfiles ==
    {<<>>,
     [work_percentage |-> 50, roles_primary |-> <<"Baker">>, senior |-> TRUE],
     [work_percentage |-> 25, experience_years |-> 3,
      availability |-> [unavailable_days |-> <<"Monday">>,
                        unavailable_times |-> <<"Night">>]]}

\* the shift lists of the schemas the solver is checked on
CpShiftLists ==
    {<<[name |-> "Day", hours |-> 8] @@ day,
       [name |-> "Night", hours |-> 8] @@ night>> :
        day \in {<<>>, [min_staff |-> 2], [required_roles |-> [Baker |-> 1]]},
        night \in {<<>>, [min_staff |-> 3]}}

\* schemas whose full-time hours exceed the weekly cap
CapSchemas ==
    {SchemaValue(e, <<[name |-> "Day", hours |-> 20],
                      [name |-> "Night", hours |-> 20]>>) :
        e \in EmployeeLists({<<>>, [work_percentage |-> 0]})}

\* schemas whose target hours are products that binary64 cannot hold exactly
RoundingSchemas ==
    {SchemaValue(e, <<[name |-> "Day", hours |-> 14],
                      [name |-> "Night", hours |-> 11]>>) :
        e \in EmployeeLists({[work_percentage |-> 58],
                             [work_percentage |-> 44]})}

\* one day with one 8-hour shift for two that asks for no role, and two
\* full-time employees without availability restrictions
ScenarioSchemas ==
    {[SchemaValue(EmployeeList(<<[work_percentage |-> 100], wp>>),
                  <<[name |-> "Day", hours |-> 8, min_staff |-> 2,
                     required_roles |-> <<>>]>>)
        EXCEPT !.days = <<day>>] :
        wp \in {<<>>, [work_percentage |-> 100]},
        day \in {"Monday", "Saturday"}}

CpSchemas ==
    {SchemaValue(e, sh) : e \in EmployeeLists(CpProfiles), sh \in CpShiftLists}
    \cup CapSchemas \cup RoundingSchemas \cup ScenarioSchemas

\* the keyword arguments the solver is checked with
CpArgChoices ==
    {a \in [relax_work_percentage : BOOLEAN, relax_coverage : BOOLEAN,
            relax_availability : BOOLEAN, fairness : BOOLEAN,
            fairness_weight : {1, 2}, rest_constraint : BOOLEAN,
            seniority : BOOLEAN] :
        a.fairness_weight = 1 \/ a.fairness}

InitCP ==
    \E v \in CpSchemas, a \in CpArgChoices : InitWith(v, a)

NextCP == OptimizedCall

SpecCP == InitCP /\ [][NextCP]_vars

\* The fairness objective is checked on calls with fairness=True under
\* three weights, on the schemas whose assignments differ in their spread.
FairnessWeights == {1, 2, 3}

FairnessSchemas ==
    {SchemaValue(e, <<[name |-> "Day", hours |-> 8] @@ day,
                      [name |-> "Night", hours |-> 8]>>) :
        e \in EmployeeLists(CpProfiles), day \in {<<>>, [min_staff |-> 2]}}

FairnessArgChoices ==
    [relax_work_percentage : BOOLEAN, relax_coverage : BOOLEAN,
     rest_constraint : BOOLEAN, fairness : {TRUE},
     fairness_weight : FairnessWeights]

InitFairness ==
    \E v \in FairnessSchemas, a \in FairnessArgChoices : InitWith(v, a)

NextFairness == OptimizedCall

SpecFairness == InitFairness /\ [][NextFairness]_vars

\* Repeated direct calls on one schema object, as a caller makes them that
\* keeps the schema between requests: the module's own test run hands the
\* object of its earlier calls to build_optimized_schedule_cp.
DirectShiftLists ==
    {<<[name |-> "Day", hours |-> 8] @@ day,
       [name |-> "Night", hours |-> 8] @@ night>> :
        day \in {<<>>, [min_staff |-> 2], [required_roles |-> [Baker |-> 1]]},
        night \in {<<>>, [min_staff |-> 2]}}

DirectSchemas ==
    {SchemaValue(e, sh) :
        e \in EmployeeLists({<<>>, [work_percentage |-> 50,
                                    roles_primary |-> <<"Baker">>]}),
        sh \in DirectShiftLists}

DirectArgChoices ==
    {<<>>, [relax_coverage |-> TRUE], [rest_constraint |-> FALSE]}

\* build_optimized_schedule_cp(schema, **a) on the object of earlier calls
DirectCall(a) ==
    /\ frame.pc = "idle"
    /\ ncalls < MaxCalls
    /\ \E o \in OptimizedOutcomes(schema, heap, a) :
        /\ heap' = o.heap
        /\ solver' = [status |-> o.status, X |-> o.X]
        /\ result' = o.result
    /\ args' = a
    /\ invoked' = <<"build_optimized_schedule_cp">>
    /\ ncalls' = ncalls + 1
    /\ UNCHANGED <<chat, schema, frame, filtered>>

InitDirect == \E v \in DirectSchemas : InitWith(v, <<>>)

NextDirect == \E a \in DirectArgChoices : DirectCall(a)

SpecDirect == InitDirect /\ [][NextDirect]_vars

(***************************************************************************)
(* Direct calls of build_basic_schedule(schema).                           *)
(***************************************************************************)
\* build_basic_schedule(schema) up to the shuffle, on the caller's schema
BasicCall ==
    /\ frame.pc = "idle"
    /\ ncalls = 0
    /\ \E perm \in Shuffles(Len(DaysOf(schema)) * Len(schema.shift_structure)) :
        frame' = BasicLocals(schema, heap, perm)
    /\ result' = NoResult
    /\ solver' = NoSolve
    /\ invoked' = <<"build_basic_schedule">>
    /\ ncalls' = ncalls + 1
    /\ UNCHANGED <<chat, schema, heap, args, filtered>>

\* one iteration of "for day, shift_name, shift_hours in shifts_to_assign"
BasicStep ==
    /\ frame.pc = "basic_loop"
    /\ frame.shifts_to_assign # <<>>
    /\ frame' = BasicIteration(frame)
    /\ UNCHANGED <<chat, schema, heap, args, filtered, result, solver,
                   invoked, ncalls>>

\* "return dict(schedule)"
BasicReturn ==
    /\ frame.pc = "basic_loop"
    /\ frame.shifts_to_assign = <<>>
    /\ result' = frame.schedule
    /\ frame' = Idle
    /\ UNCHANGED <<chat, schema, heap, args, filtered, solver, invoked,
                   ncalls>>

\* optional employee fields of the schemas the greedy assigner is checked on
GreedyProfiles ==
    {<<>>,
     [work_percentage |-> 50,
      availability |-> [unavailable_days |-> <<"Monday">>]],
     [work_percentage |-> 25,
      availability |-> [unavailable_times |-> <<"Night">>]],
     [work_percentage |-> 0]}

\* the shift lists of the schemas the greedy assigner is checked on
GreedyShiftLists ==
    {<<[name |-> "Day", hours |-> 8] @@ day, night>> :
        day \in {<<>>, [min_staff |-> 2], [min_staff |-> 3]},
        night \in {[name |-> "Night", hours |-> 8],
                   [name |-> "Night", hours |-> 4, min_staff |-> 2]}}

GreedySchemas ==
    {SchemaValue(e, sh) :
        e \in EmployeeLists(GreedyProfiles), sh \in GreedyShiftLists}
    \cup {SchemaValue(e, <<[name |-> "Day", hours |-> 14],
                           [name |-> "Night", hours |-> 11]>>) :
            e \in EmployeeLists({[work_percentage |-> 28,
                                  availability |->
                                      [unavailable_times |-> <<"Night">>]],
                                 [work_percentage |-> 58]})}

InitGreedy == \E v \in GreedySchemas : InitWith(v, <<>>)

NextGreedy == BasicCall \/ BasicStep \/ BasicReturn

SpecGreedy == InitGreedy /\ [][NextGreedy]_vars

\* a call that has started runs on: the interpreter executes the loop and
\* the return statement of a running build_basic_schedule.  Termination is
\* checked on the schemas of FairProfiles and FairShiftLists.
FairProfiles ==
    {<<>>,
     [work_percentage |-> 25,
      availability |-> [unavailable_times |-> <<"Night">>]]}

FairShiftLists ==
    {<<[name |-> "Day", hours |-> 8, min_staff |-> 2],
       [name |-> "Night", hours |-> 8]>>,
     <<[name |-> "Day", hours |-> 8],
       [name |-> "Night", hours |-> 4, min_staff |-> 2]>>}

InitGreedyFair ==
    \E e \in EmployeeLists(FairProfiles), sh \in FairShiftLists :
        InitWith(SchemaValue(e, sh), <<>>)

FairSpecGreedy ==
    /\ InitGreedyFair
    /\ [][NextGreedy]_vars
    /\ WF_vars(BasicStep)
    /\ WF_vars(BasicReturn)

(***************************************************************************)
(* Calls of the dispatcher build_schedule(schema, **a).                    *)
(***************************************************************************)
\* the keyword arguments build_schedule forwards to the optimiser
Forwarded(a) ==
    [k \in {"relax_work_percentage", "relax_coverage", "relax_availability",
            "fairness", "fairness_weight", "rest_constraint", "seniority"} |->
        Arg(a, k)]

\* build_schedule(schema, **a) with a method that selects the greedy
\* assigner: the filter, then build_basic_schedule up to the shuffle
BuildScheduleGreedy(a) ==
    LET f == FilterEmployees(schema, heap, a)
    IN  /\ frame.pc = "idle"
        /\ ncalls < MaxCalls
        /\ Dispatch(Arg(a, "method")) = "build_basic_schedule"
        /\ args' = a
        /\ filtered' = f.schema
        /\ heap' = f.heap
        /\ \E perm \in Shuffles(Len(DaysOf(f.schema))
                               * Len(f.schema.shift_structure)) :
            frame' = BasicLocals(f.schema, f.heap, perm)
        /\ result' = NoResult
        /\ solver' = NoSolve
        /\ invoked' = <<"build_schedule", "_filter_employees",
                        "build_basic_schedule">>
        /\ ncalls' = ncalls + 1
        /\ UNCHANGED <<chat, schema>>

\* build_schedule(schema, **a) with a method that selects the optimiser
BuildScheduleCp(a) ==
    LET f == FilterEmployees(schema, heap, a)
    IN  /\ frame.pc = "idle"
        /\ ncalls < MaxCalls
        /\ Dispatch(Arg(a, "method")) = "build_optimized_schedule_cp"
        /\ args' = a
        /\ filtered' = f.schema
        /\ \E o \in OptimizedOutcomes(f.schema, f.heap, Forwarded(a)) :
            /\ heap' = o.heap
            /\ solver' = [status |-> o.status, X |-> o.X]
            /\ result' = o.result
        /\ invoked' = <<"build_schedule", "_filter_employees",
                        "build_optimized_schedule_cp">>
        /\ ncalls' = ncalls + 1
        /\ UNCHANGED <<chat, schema, frame>>

\* build_schedule(schema, **a) with any other method
BuildScheduleUnknown(a) ==
    LET f == FilterEmployees(schema, heap, a)
    IN  /\ frame.pc = "idle"
        /\ ncalls < MaxCalls
        /\ Dispatch(Arg(a, "method")) = "unknown"
        /\ args' = a
        /\ filtered' = f.schema
        /\ heap' = f.heap
        /\ result' = UnknownMethod(Arg(a, "method"))
        /\ solver' = NoSolve
        /\ invoked' = <<"build_schedule", "_filter_employees">>
        /\ ncalls' = ncalls + 1
        /\ UNCHANGED <<chat, schema, frame>>

\* optional employee fields of the schemas the dispatcher is checked on: an
\* employee above both thresholds, one exactly on both, one without
\* experience_years
DispatchProfiles ==
    {[experience_years |-> 3],
     [work_percentage |-> 50, experience_years |-> 2],
     [work_percentage |-> 100]}

\* the shift lists of the schemas the dispatcher is checked on
DispatchShiftLists ==
    {<<[name |-> "Day", hours |-> 8] @@ day,
       [name |-> "Night", hours |-> 8]>> :
        day \in {<<>>, [min_staff |-> 2]}}

\* the horizon of the schemas the dispatcher is checked on
DispatchDays == <<"Monday">>

DispatchSchemas ==
    {[SchemaValue(e, sh) EXCEPT !.days = DispatchDays] :
        e \in EmployeeLists(DispatchProfiles), sh \in DispatchShiftLists}

\* the thresholds a call is checked with: none, either or both
Thresholds ==
    {<<>>, [work_percentage_threshold |-> 50], [experience_threshold |-> 2],
     [work_percentage_threshold |-> 50, experience_threshold |-> 2]}

\* the keyword arguments the dispatcher is checked with: no argument at
\* all, the optimiser under some of its options (the seniority rule among
\* them), the greedy assigner, and a method that does not exist
DispatchArgChoices ==
    {<<>>}
    \cup {[method |-> "cp"] @@ t @@ o :
            t \in Thresholds,
            o \in {<<>>, [rest_constraint |-> FALSE, fairness |-> FALSE]}}
    \cup {[method |-> "cp", seniority |-> TRUE, rest_constraint |-> FALSE]}
    \cup {[method |-> m] @@ t :
            m \in {"greedy", "bogus", "optimal"}, t \in Thresholds}

Init == \E v \in DispatchSchemas : InitWith(v, <<>>)

Next ==
    \/ \E a \in DispatchArgChoices : BuildScheduleGreedy(a)
    \/ \E a \in DispatchArgChoices : BuildScheduleCp(a)
    \/ \E a \in DispatchArgChoices : BuildScheduleUnknown(a)
    \/ BasicStep
    \/ BasicReturn

Spec == Init /\ [][Next]_vars

(***************************************************************************)
(* Calls of validate_schema(schema), as the module's own test run and the  *)
(* agents make them, on schemas that may lack any of the checked fields.   *)
(***************************************************************************)
\* validate_schema(schema)
ValidateCall ==
    LET o == ValidateOutcome(schema, heap)
    IN  /\ frame.pc = "idle"
        /\ ncalls < MaxCalls
        /\ result' = o.warnings
        /\ schema' = o.schema
        /\ heap' = o.heap
        /\ invoked' = <<"validate_schema">>
        /\ ncalls' = ncalls + 1
        /\ UNCHANGED <<chat, args, frame, filtered, solver>>

\* the employee records the validator is checked on: with and without name
\* and employment_type
ValidateProfiles ==
    {[name |-> "Anna", employment_type |-> "full-time"],
     [name |-> "James"],
     [employment_type |-> "part-time"],
     [work_percentage |-> 50]}

\* the schema values the validator is checked on: each checked key absent,
\* empty or filled
ValidateSchemas ==
    {c @@ o @@ e @@ sh :
        c \in {<<>>, [company_name |-> ""], [company_name |-> "Marios Pizza"]},
        o \in {<<>>, [opening_hours |-> <<>>],
               [opening_hours |-> [Monday |-> [open |-> "11:00",
                                               close |-> "23:00"]]]},
        e \in {<<>>} \cup
              {[employees |-> l] :
                  l \in UNION {[1..n -> ValidateProfiles] :
                                  n \in 0..NumEmployees}},
        sh \in {<<>>, [shift_structure |-> <<>>],
                [shift_structure |-> <<[name |-> "Day", hours |-> 8]>>]}}

\* the caller's schema and heap for a schema value that may lack keys
AllocatePartial(v) ==
    LET emps == Get(v, "employees", <<>>)
        shifts == Get(v, "shift_structure", <<>>)
    IN  [schema |->
            [k \in DOMAIN v |->
                IF k = "employees"
                THEN [i \in 1..Len(emps) |-> <<"employee", i>>]
                ELSE IF k = "shift_structure"
                THEN [i \in 1..Len(shifts) |-> <<"shift", i>>]
                ELSE v[k]],
         heap |->
            [id \in {<<"employee", i>> : i \in 1..Len(emps)}
                    \cup {<<"shift", i>> : i \in 1..Len(shifts)} |->
                IF id[1] = "employee" THEN emps[id[2]] ELSE shifts[id[2]]]]

InitValidate ==
    \E v \in ValidateSchemas :
        /\ schema = AllocatePartial(v).schema
        /\ heap = AllocatePartial(v).heap
        /\ args = <<>>
        /\ frame = Idle
        /\ filtered = NoSchema
        /\ result = NoResult
        /\ solver = NoSolve
        /\ invoked = <<>>
        /\ ncalls = 0
        /\ chat = <<>>

NextValidate == ValidateCall

SpecValidate == InitValidate /\ [][NextValidate]_vars

(***************************************************************************)
(* One call of build_schedule on a schema that leaves out every optional   *)
(* field: no days, shifts without min_staff and required_roles, employees  *)
(* without work_percentage and availability.                               *)
(***************************************************************************)
\* build_schedule(schema, **a), once, with a method that selects a strategy
DefaultsCallGreedy(a) == ncalls = 0 /\ BuildScheduleGreedy(a)

DefaultsCallCp(a) == ncalls = 0 /\ BuildScheduleCp(a)

\* the schema values without optional fields: one shift over the default
\* week
DefaultsSchemas ==
    {[employees |-> e, shift_structure |-> <<[name |-> "Day", hours |-> 8]>>] :
        e \in EmployeeLists({<<>>})}

DefaultsArgChoices == {<<>>, [method |-> "cp"], [method |-> "greedy"]}

InitDefaults == \E v \in DefaultsSchemas : InitWith(v, <<>>)

NextDefaults ==
    \/ \E a \in DefaultsArgChoices : DefaultsCallGreedy(a)
    \/ \E a \in DefaultsArgChoices : DefaultsCallCp(a)
    \/ BasicStep
    \/ BasicReturn

SpecDefaults == InitDefaults /\ [][NextDefaults]_vars

(***************************************************************************)
(* ConversationalScheduler.handle_user of agent2.py.  self.chat is chat,   *)
(* self.schema is schema and self.schedule is result; frame tells whether  *)
(* handle_user waits for a reply of the LLM, and for which.  A message     *)
(* keeps its role and what the Chat Completions protocol reads: the ids of *)
(* the tool calls of an assistant message, the tool_call_id of a tool      *)
(* message.  A tool is run for its outcome: a value or an exception.       *)
(***************************************************************************)
\* self.schema = None
NoneSchema == [none |-> TRUE]

\* a schema parsed from a ```json block of a reply: {} or a filled one
ParsedSchemas == {<<>>, [company_name |-> "Marios Pizza"]}

\* "not self.schema" is false
Truthy(sch) == sch # NoneSchema /\ sch # <<>>

\* the keys of tool_functions
ToolFunctions == {"build_schedule", "validate_schema"}

\* the names a reply may call: the tools and one that does not exist
ToolNames == ToolFunctions \cup {"bogus"}

\* the largest number of tool calls in one reply
MaxToolCalls == 2

\* what the user types: a show command, a reset command, a message that
\* asks for a schedule, any other message
UserMessages == {"show schema", "reset schema", "make a schedule", "hello"}

\* the content of the tool message for a call of name on self.schema =
\* sch, where the tool, if it runs, raises or returns
ToolResult(name, sch, raises) ==
    IF name = "build_schedule" /\ ~Truthy(sch)
    THEN [error |-> "schema_incomplete"]
    ELSE IF name \in ToolFunctions
            /\ (sch # NoneSchema \/ name = "validate_schema")
    THEN IF raises THEN [error |-> "internal tool exception"]
         ELSE [value |-> name]
    ELSE [error |-> "tool not found"]

\* the messages appended for a reply that requests the tool calls tcs,
\* each [id, name]: the reply itself, then the tool message of the first
\* call
ToolBranch(tcs, sch, raises) ==
    <<[role |-> "assistant",
       tool_calls |-> [k \in 1..Len(tcs) |-> tcs[k].id]],
      [role |-> "tool", tool_call_id |-> tcs[1].id, name |-> tcs[1].name,
       content |-> ToolResult(tcs[1].name, sch, raises)]>>

\* handle_user(user_msg) up to its return or its first request to the LLM
HandleUser(user_msg) ==
    /\ frame.pc = "idle"
    /\ ncalls < MaxCalls
    /\ ncalls' = ncalls + 1
    /\ invoked' = <<"handle_user">>
    /\ IF user_msg = "show schema"
       THEN UNCHANGED <<schema, result, chat, frame>>
       ELSE LET sch == IF user_msg = "reset schema" THEN NoneSchema
                       ELSE schema
                cleared == IF user_msg = "reset schema" THEN NoResult
                           ELSE result
            IN  /\ schema' = sch
                /\ IF user_msg = "make a schedule" /\ Truthy(sch)
                   THEN /\ \E res \in {[error |-> "No feasible schedule"],
                                       [value |-> "build_schedule"]} :
                             result' = IF "error" \in DOMAIN res THEN cleared
                                       ELSE res
                        /\ UNCHANGED <<chat, frame>>
                   ELSE /\ chat' = Append(chat, [role |-> "user"])
                        /\ frame' = [pc |-> "llm",
                                     tools_ok |-> sch # NoneSchema,
                                     user_msg |-> user_msg]
                        /\ result' = cleared
    /\ UNCHANGED <<heap, args, filtered, solver>>

\* the request to the LLM fails for the third time: handle_user raises
LlmFails ==
    /\ frame.pc \in {"llm", "follow_up"}
    /\ frame' = Idle
    /\ UNCHANGED <<chat, schema, heap, args, filtered, result, solver,
                   invoked, ncalls>>

\* the reply requests tool calls: the tool call branch up to its request
\* for the follow-up
ReplyToolCalls ==
    /\ frame.pc = "llm"
    /\ frame.tools_ok
    /\ \E n \in 1..MaxToolCalls, raises \in BOOLEAN :
         \E names \in [1..n -> ToolNames] :
            LET tcs == [k \in 1..n |->
                           [id |-> <<Len(chat), k>>, name |-> names[k]]]
                msgs == ToolBranch(tcs, schema, raises)
            IN  /\ chat' = chat \o msgs
                /\ result' =
                     IF tcs[1].name = "build_schedule"
                        /\ "value" \in DOMAIN msgs[2].content
                     THEN msgs[2].content
                     ELSE result
    /\ frame' = [pc |-> "follow_up"]
    /\ UNCHANGED <<schema, heap, args, filtered, solver, invoked, ncalls>>

\* the reply to the follow-up request: its text joins the history
ReplyFollowUp ==
    /\ frame.pc = "follow_up"
    /\ chat' = Append(chat, [role |-> "assistant"])
    /\ frame' = Idle
    /\ UNCHANGED <<schema, heap, args, filtered, result, solver, invoked,
                   ncalls>>

\* the reply is plain text, with or without a ```json block that parses
ReplyText ==
    /\ frame.pc = "llm"
    /\ \/ /\ UNCHANGED <<schema, result>>
          /\ chat' = Append(chat, [role |-> "assistant"])
       \/ \E parsed \in ParsedSchemas :
            /\ schema' = parsed
            /\ IF frame.user_msg = "make a schedule"
               THEN /\ \E res \in {[error |-> "No feasible schedule"],
                                   [value |-> "build_schedule"]} :
                         result' = IF "error" \in DOMAIN res THEN result
                                   ELSE res
                    /\ UNCHANGED chat
               ELSE /\ chat' = Append(chat, [role |-> "assistant"])
                    /\ UNCHANGED result
    /\ frame' = Idle
    /\ UNCHANGED <<heap, args, filtered, solver, invoked, ncalls>>

\* ConversationalScheduler(): no schema, no schedule, the system prompt
InitChat ==
    /\ schema = NoneSchema
    /\ heap = <<>>
    /\ args = <<>>
    /\ frame = Idle
    /\ filtered = NoSchema
    /\ result = NoResult
    /\ solver = NoSolve
    /\ invoked = <<>>
    /\ ncalls = 0
    /\ chat = <<[role |-> "system"]>>

NextChat ==
    \/ \E user_msg \in UserMessages : HandleUser(user_msg)
    \/ LlmFails
    \/ ReplyToolCalls
    \/ ReplyFollowUp
    \/ ReplyText

SpecChat == InitChat /\ [][NextChat]_vars

(***************************************************************************)
(* What the checked properties read off a state.                           *)
(***************************************************************************)
\* the caller's employee and shift dicts
CallerEmployees == EmployeesOf(schema, heap)
CallerShifts == ShiftsOf(schema, heap)
CallerDays == DaysOf(schema)

\* the entries of schedule res for a day and a shift name
EntriesFor(res, day, shift_name) ==
    SelectSeq(Get(res, day, <<>>), LAMBDA en : en.shift = shift_name)

\* whether schedule res has employee emp on a day and a shift name
Works(res, day, shift_name, emp) ==
    \E k \in 1..Len(Get(res, day, <<>>)) :
        res[day][k] = [shift |-> shift_name, employee |-> emp]

\* the entries of schedule res over the days of a list
TotalEntries(res, days) ==
    SeqSum([d \in 1..Len(days) |-> Len(Get(res, days[d], <<>>))])

\* the hours schedule res gives employee emp over the caller's days and shifts
HoursOf(res, emp) ==
    SeqSum([d \in 1..Len(CallerDays) |->
        SeqSum([s \in 1..Len(CallerShifts) |->
            IF Works(res, CallerDays[d], CallerShifts[s].name, emp)
            THEN CallerShifts[s].hours ELSE 0])])

\* a direct call of build_basic_schedule has returned
GreedyReturned ==
    /\ invoked = <<"build_basic_schedule">>
    /\ frame.pc = "idle"

\* a direct call of build_optimized_schedule_cp has returned a schedule
CpReturnedSchedule ==
    /\ invoked = <<"build_optimized_schedule_cp">>
    /\ "error" \notin DOMAIN result

(***************************************************************************)
(* C1, under SpecGreedy.                                                   *)
(***************************************************************************)
\* C1 as stated: the result of build_basic_schedule holds exactly
\* |days| x |shift_structure| entries in total, one per (day, shift) pair.
\* It fails: a shift with min_staff > 1 gets one entry per employee picked.
C1_OneEntryPerSlot ==
    GreedyReturned =>
        TotalEntries(result, CallerDays)
        = Len(CallerDays) * Len(CallerShifts)

\* C1, amended: the result of build_basic_schedule holds, for every
\* (day, shift) pair, at least one and at most min_staff entries (an absent
\* min_staff counting as 1); an entry without employee (None) is the last of
\* its pair; the result has no other entries; so the total is
\* |days| x |shift_structure| when every shift has min_staff 1.
C1_EntriesPerSlot ==
    GreedyReturned =>
        /\ DOMAIN result \subseteq Range(CallerDays)
        /\ \A d \in 1..Len(CallerDays) :
            \A k \in 1..Len(Get(result, CallerDays[d], <<>>)) :
                \E s \in 1..Len(CallerShifts) :
                    result[CallerDays[d]][k].shift = CallerShifts[s].name
        /\ \A d \in 1..Len(CallerDays), s \in 1..Len(CallerShifts) :
            LET entries == EntriesFor(result, CallerDays[d],
                                      CallerShifts[s].name)
            IN  /\ Len(entries) >= 1
                /\ Len(entries) <= Get(CallerShifts[s], "min_staff", 1)
                /\ \A k \in 1..(Len(entries) - 1) : entries[k].employee # None
        /\ (\A s \in 1..Len(CallerShifts) :
                Get(CallerShifts[s], "min_staff", 1) = 1)
           => TotalEntries(result, CallerDays)
              = Len(CallerDays) * Len(CallerShifts)

\* C1's case: a returned schedule where a shift with min_staff 3 has two
\* employees and then an unstaffed entry on a day, and another pair has
\* nothing but an unstaffed entry
C1_Witness ==
    /\ GreedyReturned
    /\ \E d \in 1..Len(CallerDays), s \in 1..Len(CallerShifts) :
        LET entries == EntriesFor(result, CallerDays[d], CallerShifts[s].name)
        IN  /\ Get(CallerShifts[s], "min_staff", 1) = 3
            /\ Len(entries) = 3
            /\ entries[2].employee # None
            /\ entries[3].employee = None
    /\ \E d \in 1..Len(CallerDays), s \in 1..Len(CallerShifts) :
        EntriesFor(result, CallerDays[d], CallerShifts[s].name)
        = <<[shift |-> CallerShifts[s].name, employee |-> None]>>

(***************************************************************************)
(* C2 to C6, under SpecCP.                                                 *)
(***************************************************************************)
\* C2: when build_optimized_schedule_cp is called with relax_coverage=False
\* and returns a schedule, every day's list has at least min_staff(s)
\* entries for every shift s, an absent min_staff counting as 1.
C2_CoverageMet ==
    (CpReturnedSchedule /\ ~Arg(args, "relax_coverage")) =>
        \A d \in 1..Len(CallerDays), s \in 1..Len(CallerShifts) :
            Len(EntriesFor(result, CallerDays[d], CallerShifts[s].name))
            >= Get(CallerShifts[s], "min_staff", 1)

\* C2's case: a schedule returned under relax_coverage=False where a shift
\* with min_staff 2 has exactly two entries on a day and another shift one
C2_Witness ==
    /\ CpReturnedSchedule
    /\ ~Arg(args, "relax_coverage")
    /\ \E d \in 1..Len(CallerDays), s, t \in 1..Len(CallerShifts) :
        /\ Get(CallerShifts[s], "min_staff", 1) = 2
        /\ Len(EntriesFor(result, CallerDays[d], CallerShifts[s].name)) = 2
        /\ Len(EntriesFor(result, CallerDays[d], CallerShifts[t].name)) = 1

\* C3: when rest_constraint=True, shift_structure has more than one shift
\* and a schedule is returned, no employee is on a slot (d, s) and on its
\* successor: (d, s+1) when s is not the last shift, (d+1, first shift) when
\* s is the last shift and d is not the final day.
C3_NoAdjacentShifts ==
    (/\ CpReturnedSchedule
     /\ Arg(args, "rest_constraint")
     /\ Len(CallerShifts) > 1) =>
        \A e \in 1..Len(CallerEmployees), d \in 1..Len(CallerDays),
           s \in 1..Len(CallerShifts) :
            LET last == s = Len(CallerShifts)
                succ == IF last THEN <<d + 1, 1>> ELSE <<d, s + 1>>
            IN  (~last \/ d < Len(CallerDays)) =>
                    ~(/\ Works(result, CallerDays[d], CallerShifts[s].name,
                               CallerEmployees[e].name)
                      /\ Works(result, CallerDays[succ[1]],
                               CallerShifts[succ[2]].name,
                               CallerEmployees[e].name))

\* C3's case: a schedule returned under rest_constraint=True where an
\* employee is on the last shift of the first day and on the last shift of
\* the final day
C3_Witness ==
    /\ CpReturnedSchedule
    /\ Arg(args, "rest_constraint")
    /\ Len(CallerShifts) > 1
    /\ Len(CallerDays) > 1
    /\ \E e \in 1..Len(CallerEmployees) :
        /\ Works(result, CallerDays[1], CallerShifts[Len(CallerShifts)].name,
                 CallerEmployees[e].name)
        /\ Works(result, CallerDays[Len(CallerDays)],
                 CallerShifts[Len(CallerShifts)].name,
                 CallerEmployees[e].name)

\* C4 as stated: when relax_work_percentage=False and a schedule is
\* returned, every employee's assigned hours equal
\* min(floor(work_percentage/100 x |days| x sum of shift hours), 40), an
\* absent work_percentage counting as 100.  It fails where the binary64
\* product falls short of the exact one: 58 percent of 50 hours gives 28.
C4_HoursEqualFloorOfShare ==
    (CpReturnedSchedule /\ ~Arg(args, "relax_work_percentage")) =>
        \A e \in 1..Len(CallerEmployees) :
            HoursOf(result, CallerEmployees[e].name)
            = Min((Get(CallerEmployees[e], "work_percentage", 100)
                   * total_schedule_hours(CallerShifts, CallerDays)) \div 100,
                  weekly_cap)

\* C5: when relax_availability=False and a schedule is returned, no entry
\* has an employee on one of its unavailable_days or on a shift named in its
\* unavailable_times; when relax_availability=True the availability
\* constraint excludes no set of slots of any employee.
C5_AvailabilityRespected ==
    /\ (CpReturnedSchedule /\ ~Arg(args, "relax_availability")) =>
        \A e \in 1..Len(CallerEmployees), d \in 1..Len(CallerDays),
           s \in 1..Len(CallerShifts) :
            (\/ CallerDays[d]
                \in Unavailable(CallerEmployees[e], "unavailable_days")
             \/ CallerShifts[s].name
                \in Unavailable(CallerEmployees[e], "unavailable_times"))
            => ~Works(result, CallerDays[d], CallerShifts[s].name,
                      CallerEmployees[e].name)
    /\ (/\ invoked = <<"build_optimized_schedule_cp">>
        /\ Arg(args, "relax_availability")) =>
        \A e \in 1..Len(CallerEmployees) :
            \A row \in SUBSET Slots(CallerShifts, CallerDays) :
                AvailabilityConstraint(row, CallerEmployees[e], CallerShifts,
                                       CallerDays, args)

\* C5's case: a schedule returned under relax_availability=False that has
\* an entry for an employee with unavailable days and unavailable times
C5_Witness ==
    /\ CpReturnedSchedule
    /\ ~Arg(args, "relax_availability")
    /\ \E e \in 1..Len(CallerEmployees), d \in 1..Len(CallerDays),
          s \in 1..Len(CallerShifts) :
        /\ Unavailable(CallerEmployees[e], "unavailable_days") # {}
        /\ Unavailable(CallerEmployees[e], "unavailable_times") # {}
        /\ Works(result, CallerDays[d], CallerShifts[s].name,
                 CallerEmployees[e].name)

\* C6: in every schedule returned, with relax_coverage=True as well, for
\* every (day, shift) and every (role, min_count) of the shift's
\* required_roles, at least min_count of the entries of that (day, shift)
\* name an employee with the role in roles_primary.
C6_RoleCoverageMet ==
    CpReturnedSchedule =>
        \A d \in 1..Len(CallerDays), s \in 1..Len(CallerShifts) :
            LET required == Get(CallerShifts[s], "required_roles", <<>>)
            IN  \A role \in DOMAIN required :
                    Cardinality({e \in 1..Len(CallerEmployees) :
                        /\ Works(result, CallerDays[d], CallerShifts[s].name,
                                 CallerEmployees[e].name)
                        /\ role \in Range(Get(CallerEmployees[e],
                                              "roles_primary", <<>>))})
                    >= required[role]

\* C6's case: a schedule returned under relax_coverage=True where a shift
\* that requires a role is staffed and another slot has no entry at all
C6_Witness ==
    /\ CpReturnedSchedule
    /\ Arg(args, "relax_coverage")
    /\ \E d \in 1..Len(CallerDays), s, t \in 1..Len(CallerShifts) :
        /\ DOMAIN Get(CallerShifts[s], "required_roles", <<>>) # {}
        /\ EntriesFor(result, CallerDays[d], CallerShifts[s].name) # <<>>
        /\ EntriesFor(result, CallerDays[d], CallerShifts[t].name) = <<>>

(***************************************************************************)
(* C7 to C10, under Spec.                                                  *)
(***************************************************************************)
\* the objects of the caller's schema
CallerObjects == Range(schema.employees) \cup Range(schema.shift_structure)

\* a build_schedule call has returned
BuildScheduleReturned ==
    /\ invoked # <<>>
    /\ invoked[1] = "build_schedule"
    /\ frame.pc = "idle"

\* C7: no step of a build_schedule call, whatever its method and options,
\* changes the caller's schema or an object of it; so a shift definition
\* that lacks min_staff still lacks it after any sequence of calls.
C7_CallerSchemaUnchanged ==
    [][/\ schema' = schema
       /\ \A id \in CallerObjects : heap'[id] = heap[id]]_vars

\* C7's case: after the last of several calls, made with the optimiser, a
\* caller's shift definition lacks min_staff and its copy has got one
C7_Witness ==
    /\ BuildScheduleReturned
    /\ ncalls = MaxCalls
    /\ invoked[3] = "build_optimized_schedule_cp"
    /\ \E i \in 1..Len(schema.shift_structure) :
        /\ "min_staff" \notin DOMAIN heap[schema.shift_structure[i]]
        /\ heap[filtered.shift_structure[i]]
           = SetDefault(heap[schema.shift_structure[i]], "min_staff", 1)

\* C8 as stated: no employee record and no shift definition of the schema
\* _filter_employees returns is an object of the caller's schema.  It fails:
\* the employee records returned are the caller's own.
C8_ReturnedObjectsAreCopies ==
    (invoked # <<>>) =>
        (Range(filtered.employees) \cup Range(filtered.shift_structure))
        \cap CallerObjects = {}

\* the caller's schema with its employee list restricted, in order, to the
\* employees that pass every threshold supplied in a
Restricted(sch, h, a) ==
    [sch EXCEPT !.employees =
        SelectSeq(sch.employees, LAMBDA id :
            /\ "work_percentage_threshold" \in DOMAIN a
               => Get(h[id], "work_percentage", 100)
                  > a["work_percentage_threshold"]
            /\ "experience_threshold" \in DOMAIN a
               => Get(h[id], "experience_years", 0)
                  > a["experience_threshold"])]

\* the values the strategy that a selects can return when called on sch
DirectResults(sch, h, a) ==
    IF Dispatch(Arg(a, "method")) = "build_basic_schedule"
    THEN BasicResults(sch, h)
    ELSE {o.result : o \in OptimizedOutcomes(sch, h, Forwarded(a))}

\* C9: for a method that selects a strategy, build_schedule(schema, **args)
\* has the results that the strategy has when called on the schema whose
\* employee list is restricted, in order, to the employees with
\* work_percentage > T1 (absent: 100) and experience_years > T2 (absent: 0),
\* for each threshold supplied; and the value a call returned is one of them.
C9_FilterThenStrategy ==
    (/\ BuildScheduleReturned
     /\ Arg(args, "method") \in {"greedy", "cp"}) =>
        LET f == FilterEmployees(schema, heap, args)
            direct == DirectResults(Restricted(schema, heap, args), heap, args)
        IN  /\ result \in direct
            /\ DirectResults(f.schema, f.heap, args) = direct

\* C9's case: a call with both thresholds has returned a schedule with an
\* entry, having dropped an employee that is exactly on a threshold and
\* kept another
C9_Witness ==
    /\ BuildScheduleReturned
    /\ Arg(args, "method") \in {"greedy", "cp"}
    /\ {"work_percentage_threshold", "experience_threshold"}
       \subseteq DOMAIN args
    /\ filtered.employees # <<>>
    /\ \E id \in Range(schema.employees) \ Range(filtered.employees) :
        Get(heap[id], "work_percentage", 100)
        = args["work_percentage_threshold"]
    /\ "error" \notin DOMAIN result
    /\ \E day \in DOMAIN result, k \in 1..NumEmployees :
        /\ k <= Len(result[day])
        /\ result[day][k].employee # None

\* C10: build_schedule called with a method that is neither "greedy" nor
\* "cp" returns {"error": "Unknown method '<method>'"}, and neither
\* build_basic_schedule nor build_optimized_schedule_cp is entered.
C10_UnknownMethod ==
    (BuildScheduleReturned /\ Arg(args, "method") \notin {"greedy", "cp"}) =>
        /\ \A m \in {"bogus", "optimal"} :
            Arg(args, "method") = m
            => result = [error |-> IF m = "bogus"
                                   THEN "Unknown method 'bogus'"
                                   ELSE "Unknown method 'optimal'"]
        /\ DOMAIN result = {"error"}
        /\ "build_basic_schedule" \notin Range(invoked)
        /\ "build_optimized_schedule_cp" \notin Range(invoked)
        /\ solver = NoSolve

\* C10's case: a call with method "bogus" has returned, on a schema that the
\* optimiser could have scheduled
C10_Witness ==
    /\ BuildScheduleReturned
    /\ Arg(args, "method") = "bogus"
    /\ result = [error |-> "Unknown method 'bogus'"]
    /\ \E o \in OptimizedOutcomes(filtered, heap, Forwarded(args)) :
        o.status = "OPTIMAL"

(***************************************************************************)
(* C11 and C12, under SpecValidate.                                        *)
(***************************************************************************)
\* a call of validate_schema has returned
ValidateReturned == invoked = <<"validate_schema">>

\* C11 as stated: validate_schema returns an empty list exactly when
\* company_name is present and non-empty, opening_hours is present,
\* employees is present and non-empty, shift_structure is present and every
\* employee has name and employment_type; and it returns one warning per
\* violated check.  It fails: an empty company_name draws no warning.
C11_NoWarningIffComplete ==
    ValidateReturned =>
        LET emps == [i \in 1..Len(Get(schema, "employees", <<>>)) |->
                        heap[schema.employees[i]]]
            violated ==
                SeqSum(<<IF Get(schema, "company_name", "") = ""
                         THEN 1 ELSE 0,
                         IF "opening_hours" \notin DOMAIN schema
                         THEN 1 ELSE 0,
                         IF Get(schema, "employees", <<>>) = <<>>
                         THEN 1 ELSE 0,
                         IF "shift_structure" \notin DOMAIN schema
                         THEN 1 ELSE 0>>)
                + SeqSum([i \in 1..Len(emps) |->
                            (IF "name" \in DOMAIN emps[i] THEN 0 ELSE 1)
                            + (IF "employment_type" \in DOMAIN emps[i]
                               THEN 0 ELSE 1)])
        IN  /\ (result = <<>>) <=> (violated = 0)
            /\ Len(result) = violated

\* C12: a call of validate_schema leaves the schema and its objects
\* unchanged, and a call that follows another on the same schema returns the
\* list the other returned.
C12_ValidatePureIdempotent ==
    [][/\ schema' = schema
       /\ heap' = heap
       /\ ValidateReturned => result' = result]_vars

\* C12's case: a second call has returned a list of several warnings, one
\* of them about an employee
C12_Witness ==
    /\ ValidateReturned
    /\ ncalls >= 2
    /\ Len(result) >= 3
    /\ result[Len(result)] = "Employee James missing employment_type."

(***************************************************************************)
(* C13, under FairSpecGreedy.                                              *)
(***************************************************************************)
\* C13: a running build_basic_schedule returns, whatever the shuffle; what
\* it returns is no error payload but a mapping from days of the schema to
\* lists of entries, each with a shift name of shift_structure and the name
\* of an employee of the schema or None; and every (day, shift) pair has at
\* least one entry.
C13_GreedyNeverFails ==
    /\ [](GreedyReturned =>
            /\ "error" \notin DOMAIN result
            /\ DOMAIN result \subseteq Range(CallerDays)
            /\ \A day \in DOMAIN result :
                \A k \in 1..Len(result[day]) :
                    /\ DOMAIN result[day][k] = {"shift", "employee"}
                    /\ \E s \in 1..Len(CallerShifts) :
                        result[day][k].shift = CallerShifts[s].name
                    /\ \/ result[day][k].employee = None
                       \/ \E e \in 1..Len(CallerEmployees) :
                            result[day][k].employee = CallerEmployees[e].name
            /\ \A d \in 1..Len(CallerDays), s \in 1..Len(CallerShifts) :
                EntriesFor(result, CallerDays[d], CallerShifts[s].name)
                # <<>>)
    /\ (frame.pc = "basic_loop") ~> GreedyReturned

\* C13's case: a call has returned a schedule that has an entry with an
\* employee and, the employees having reached their targets, an unstaffed
\* one on the same day
C13_Witness ==
    /\ GreedyReturned
    /\ CallerEmployees # <<>>
    /\ \E day \in DOMAIN result :
        \E j, k \in 1..Len(result[day]) :
            /\ result[day][j].employee # None
            /\ result[day][k].employee = None
            /\ result[day][j].shift # result[day][k].shift

(***************************************************************************)
(* C14, under SpecDefaults.                                                *)
(***************************************************************************)
\* schema sch of heap h with every optional field written out: days the
\* full week, min_staff 1 and no required role on every shift,
\* work_percentage 100 and empty unavailable lists on every employee
Explicit(sch, h) ==
    [schema |-> ("days" :> <<"Monday", "Tuesday", "Wednesday", "Thursday",
                             "Friday", "Saturday", "Sunday">>) @@ sch,
     heap |->
        [id \in DOMAIN h |->
            IF id \in Range(sch.shift_structure)
            THEN ("min_staff" :> 1) @@ ("required_roles" :> <<>>) @@ h[id]
            ELSE IF id \in Range(sch.employees)
            THEN ("work_percentage" :> 100)
                 @@ ("availability" :> [unavailable_days |-> <<>>,
                                        unavailable_times |-> <<>>])
                 @@ h[id]
            ELSE h[id]]]

\* the values build_schedule(sch, **a) can return, a selecting a strategy
BuildScheduleResults(sch, h, a) ==
    LET f == FilterEmployees(sch, h, a)
    IN  DirectResults(f.schema, f.heap, a)

\* C14: for a schema without optional fields and either method,
\* build_schedule has the possible results it has for the schema with the
\* defaults written out, finding every key it reads; the greedy method
\* returns a schedule over the seven days of the week, the optimiser a
\* schedule over days of the week or its error.
C14_DefaultsAsExplicit ==
    /\ ncalls = 0 =>
        \A a \in DefaultsArgChoices :
            BuildScheduleResults(schema, heap, a)
            = BuildScheduleResults(Explicit(schema, heap).schema,
                                   Explicit(schema, heap).heap, a)
    /\ (BuildScheduleReturned /\ Arg(args, "method") = "greedy") =>
        DOMAIN result = Range(DefaultDays)
    /\ (BuildScheduleReturned /\ Arg(args, "method") = "cp") =>
        \/ result = NoFeasibleSchedule
        \/ DOMAIN result \subseteq Range(DefaultDays)

\* C14's case: a call has returned a schedule over the seven days of the
\* default week, the shift having no min_staff and the employees no
\* work_percentage in the caller's schema
C14_Witness ==
    /\ BuildScheduleReturned
    /\ "days" \notin DOMAIN schema
    /\ \A id \in Range(schema.shift_structure) :
        "min_staff" \notin DOMAIN heap[id]
    /\ schema.employees # <<>>
    /\ \A id \in Range(schema.employees) :
        "work_percentage" \notin DOMAIN heap[id]
    /\ DOMAIN result = Range(DefaultDays)
    /\ \E k \in 1..Len(result["Sunday"]) :
        result["Sunday"][k].employee # None

\* the direct call of the optimiser has returned
OptimizedReturned == invoked = <<"build_optimized_schedule_cp">>

\* C15: build_optimized_schedule_cp returns a schedule (a dict of day names
\* to entry lists) only when the solver's status is OPTIMAL or FEASIBLE; for
\* every other status (INFEASIBLE, UNKNOWN, MODEL_INVALID) the value
\* returned is exactly {"error": "No feasible schedule found with current
\* constraints."}.  The first two conjuncts are about the call that has
\* returned, the third about the return statement under each status of the
\* solver, whatever the assignment.
C15_ScheduleOnlyWhenSolved ==
    OptimizedReturned =>
        /\ solver.status \in CpSolverStatuses
        /\ IF solver.status \in {"OPTIMAL", "FEASIBLE"}
           THEN /\ DOMAIN result \subseteq Range(CallerDays)
                /\ result = BuildOutput(solver.X, CallerEmployees,
                                        CallerShifts, CallerDays,
                                        Len(CallerDays))
           ELSE result =
                    [error |->
                        "No feasible schedule found with current constraints."]
        /\ \A status \in CpSolverStatuses \ {"OPTIMAL", "FEASIBLE"} :
              Resolution(status, solver.X, CallerEmployees, CallerShifts,
                         CallerDays)
              = [error |->
                    "No feasible schedule found with current constraints."]

\* a call on two employees that the solver found infeasible
C15_Witness ==
    /\ OptimizedReturned
    /\ solver.status = "INFEASIBLE"
    /\ Len(CallerEmployees) = 2
    /\ DOMAIN result = {"error"}

\* the caller's schema is one of ScenarioSchemas
IsScenario ==
    /\ Len(CallerDays) = 1
    /\ Len(CallerShifts) = 1
    /\ CallerShifts[1].hours = 8
    /\ Get(CallerShifts[1], "min_staff", 1) = 2
    /\ DOMAIN Get(CallerShifts[1], "required_roles", <<>>) = {}
    /\ Len(CallerEmployees) = 2
    /\ \A e \in 1..2 :
          /\ Get(CallerEmployees[e], "work_percentage", 100) = 100
          /\ "availability" \notin DOMAIN CallerEmployees[e]

\* C16: on one day with one 8-hour shift with min_staff 2 and no required
\* roles and two employees with work_percentage 100 and no availability
\* restrictions, build_optimized_schedule_cp with relax_work_percentage=True
\* returns a schedule, and the schedule has both employees on that shift of
\* that day.  The bounds 0.95 * target_hours and 1.05 * target_hours are
\* compared with the assigned hours as numbers.
C16_ScenarioAssignsBoth ==
    (OptimizedReturned /\ IsScenario /\ Arg(args, "relax_work_percentage")) =>
        /\ solver.status \in {"OPTIMAL", "FEASIBLE"}
        /\ result =
              (CallerDays[1] :>
                 <<[shift |-> CallerShifts[1].name,
                    employee |-> CallerEmployees[1].name],
                   [shift |-> CallerShifts[1].name,
                    employee |-> CallerEmployees[2].name]>>)

C16_Witness ==
    /\ OptimizedReturned
    /\ IsScenario
    /\ Arg(args, "relax_work_percentage")
    /\ Arg(args, "seniority")
    /\ Len(result[CallerDays[1]]) = 2

\* C17: when the employees list is empty and days and shift_structure are
\* not, build_optimized_schedule_cp with relax_coverage=False finds the model
\* infeasible and returns the failure value, whatever the other options: the
\* coverage sum over no employees is 0 and min_staff is at least 1 (it is
\* set to 1 where the shift does not give it).
C17_NoEmployeesInfeasible ==
    (/\ OptimizedReturned
     /\ CallerEmployees = <<>>
     /\ CallerDays # <<>>
     /\ CallerShifts # <<>>
     /\ ~Arg(args, "relax_coverage")) =>
        /\ solver.status = "INFEASIBLE"
        /\ result =
              [error |->
                  "No feasible schedule found with current constraints."]

\* a call without employees, every option relaxed or switched off but
\* coverage, on shifts that give no min_staff of their own
C17_Witness ==
    /\ OptimizedReturned
    /\ CallerEmployees = <<>>
    /\ Len(CallerDays) = 2
    /\ Len(CallerShifts) = 2
    /\ \A s \in 1..2 : CallerShifts[s].min_staff = 1
    /\ ~Arg(args, "relax_coverage")
    /\ Arg(args, "relax_work_percentage")
    /\ Arg(args, "relax_availability")
    /\ ~Arg(args, "rest_constraint")
    /\ ~Arg(args, "fairness")
    /\ "error" \in DOMAIN result

\* C18: an iteration of build_basic_schedule whose task (day, shift) has no
\* candidate appends to that day exactly one entry, with employee None,
\* changes nothing else of the schedule or of the employees' hours, and goes
\* on with the next task; so a call on an empty employees list returns, for
\* every day, one None entry per shift and nothing else.
C18_UnstaffedEntry ==
    /\ [][(/\ frame.pc = "basic_loop"
           /\ frame.shifts_to_assign # <<>>
           /\ frame' # frame
           /\ Candidates(frame, Head(frame.shifts_to_assign)[1],
                         Head(frame.shifts_to_assign)[2]) = <<>>) =>
            LET day == Head(frame.shifts_to_assign)[1]
                shift_name == Head(frame.shifts_to_assign)[2]
            IN  /\ frame'.pc = "basic_loop"
                /\ frame'.shifts_to_assign = Tail(frame.shifts_to_assign)
                /\ frame'.employee_info = frame.employee_info
                /\ DOMAIN frame'.schedule = DOMAIN frame.schedule \cup {day}
                /\ frame'.schedule[day] =
                      Append(Get(frame.schedule, day, <<>>),
                             [shift |-> shift_name, employee |-> None])
                /\ \A other \in DOMAIN frame.schedule \ {day} :
                      frame'.schedule[other] = frame.schedule[other]]_vars
    /\ []((GreedyReturned /\ CallerEmployees = <<>>) =>
            /\ DOMAIN result = Range(CallerDays)
            /\ \A day \in DOMAIN result :
                /\ Len(result[day]) = Len(CallerShifts)
                /\ \A s \in 1..Len(CallerShifts) :
                      EntriesFor(result, day, CallerShifts[s].name)
                      = <<[shift |-> CallerShifts[s].name,
                           employee |-> None]>>)

\* the loop, on a schema with two employees, has met a task without
\* candidates, recorded the one None entry for it and has tasks left
C18_Witness ==
    /\ frame.pc = "basic_loop"
    /\ frame.shifts_to_assign # <<>>
    /\ Len(CallerEmployees) = 2
    /\ \E day \in DOMAIN frame.schedule, s \in 1..Len(CallerShifts) :
          EntriesFor(frame.schedule, day, CallerShifts[s].name)
          = <<[shift |-> CallerShifts[s].name, employee |-> None]>>

\* schedule res has a senior or 3-year-experienced employee of the caller's
\* schema on shift s of day d
SeniorOn(res, d, s) ==
    \E e \in 1..Len(CallerEmployees) :
        /\ \/ Get(CallerEmployees[e], "senior", FALSE)
           \/ Get(CallerEmployees[e], "experience_years", 0) >= 3
        /\ Works(res, CallerDays[d], CallerShifts[s].name,
                 CallerEmployees[e].name)

C20_SeniorWhereStaffAboveOne ==
    (/\ BuildScheduleReturned
     /\ Arg(args, "method") = "cp"
     /\ Arg(args, "seniority")
     /\ "error" \notin DOMAIN result) =>
        \A d \in 1..Len(CallerDays), s \in 1..Len(CallerShifts) :
            Get(CallerShifts[s], "min_staff", 1) > 1 => SeniorOn(result, d, s)

\* C21 as stated: a schedule returned with relax_work_percentage=True gives
\* every employee assigned hours h with 95 x target <= 100 x h <= 105 x
\* target, and one returned with relax_work_percentage=False gives h =
\* target, where target = min(floor(work_percentage/100 x
\* total_schedule_hours), 40).  It fails where the binary64 product that the
\* code truncates falls short of the exact one: 58 percent of 50 hours gives
\* the target 28, and the hours are matched against 28, not 29.
C21_HoursWithinBand ==
    CpReturnedSchedule =>
        \A e \in 1..Len(CallerEmployees) :
            LET h == HoursOf(result, CallerEmployees[e].name)
                target ==
                    Min((Get(CallerEmployees[e], "work_percentage", 100)
                         * total_schedule_hours(CallerShifts, CallerDays))
                        \div 100,
                        weekly_cap)
            IN  IF Arg(args, "relax_work_percentage")
                THEN 95 * target <= 100 * h /\ 100 * h <= 105 * target
                ELSE h = target

\* the fairness spread of schedule res: the largest number of entries of a
\* day of the horizon minus the smallest
SpreadOf(res, days) ==
    IF days = <<>> THEN 0
    ELSE LET counts == {Len(Get(res, days[d], <<>>)) : d \in 1..Len(days)}
             hi == CHOOSE c \in counts : \A o \in counts : o <= c
             lo == CHOOSE c \in counts : \A o \in counts : c <= o
         IN  hi - lo

\* the number of entries of schedule res that name employee emp
EntriesOf(res, emp) ==
    SeqSum([d \in 1..Len(CallerDays) |->
        Len(SelectSeq(Get(res, CallerDays[d], <<>>),
                      LAMBDA en : en.employee = emp))])

\* C22: with fairness=True and fairness_weight > 0, every schedule that
\* build_optimized_schedule_cp can return with status OPTIMAL has the least
\* fairness spread (busiest day's entries minus quietest day's) of all the
\* assignments that satisfy the constraints posted under the call's
\* options.  The outcomes of the call are compared with the admitted
\* assignments before the call is made.
C22_OptimalHasLeastSpread ==
    (ncalls = 0 /\ Arg(args, "fairness") /\ Arg(args, "fairness_weight") > 0)
    =>
        LET h1 == DefaultMinStaff(schema, heap)
            employees == EmployeesOf(schema, h1)
            shifts == ShiftsOf(schema, h1)
            feasible == Feasible(employees, shifts, CallerDays, args)
            spreads ==
                {SpreadOf(BuildOutput(X, employees, shifts, CallerDays,
                                      Len(CallerDays)), CallerDays) :
                    X \in feasible}
        IN  \A o \in OptimizedOutcomes(schema, heap, args) :
                o.status = "OPTIMAL" =>
                    /\ SpreadOf(o.result, CallerDays) \in spreads
                    /\ \A sp \in spreads : SpreadOf(o.result, CallerDays) <= sp

\* a schedule returned as OPTIMAL under fairness whose days are equally
\* staffed while one employee has more entries than the other, on a schema
\* that also admits an assignment with unequal days
C22_Witness ==
    /\ CpReturnedSchedule
    /\ solver.status = "OPTIMAL"
    /\ Arg(args, "fairness")
    /\ ~Arg(args, "relax_work_percentage")
    /\ Len(CallerEmployees) = 2
    /\ SpreadOf(result, CallerDays) = 0
    /\ result # <<>>
    /\ EntriesOf(result, CallerEmployees[1].name)
       > EntriesOf(result, CallerEmployees[2].name)

\* the fairness spreads of the schedules that a call with fairness_weight w
\* and the state's other options can return with status OPTIMAL
MinimizedSpreads(w) ==
    {SpreadOf(o.result, CallerDays) :
        o \in {o \in OptimizedOutcomes(schema, heap,
                                       [args EXCEPT !.fairness_weight = w]) :
                  o.status = "OPTIMAL"}}

\* C23: for positive weights w1 < w2 and a model that is feasible and
\* otherwise the same, the spread of a schedule returned as OPTIMAL under
\* fairness_weight = w2 is never larger than that of one returned as
\* OPTIMAL under fairness_weight = w1.  The state's own weight is w1.
C23_LargerWeightNoWorse ==
    (ncalls = 0 /\ Arg(args, "fairness")) =>
        \A w2 \in FairnessWeights :
            Arg(args, "fairness_weight") < w2 =>
                \A lo \in MinimizedSpreads(Arg(args, "fairness_weight")),
                   hi \in MinimizedSpreads(w2) : hi <= lo

\* a call under fairness_weight 2 has returned as OPTIMAL a schedule with
\* equal days, on a schema and options that admit unequal days as well: the
\* schedules returned as FEASIBLE include one with a spread above 0
C23_Witness ==
    /\ CpReturnedSchedule
    /\ solver.status = "OPTIMAL"
    /\ Arg(args, "fairness")
    /\ Arg(args, "fairness_weight") = 2
    /\ ~Arg(args, "relax_work_percentage")
    /\ SpreadOf(result, CallerDays) = 0
    /\ Len(CallerEmployees) = 2
    /\ \E o \in OptimizedOutcomes(schema, heap, args) :
          o.status = "FEASIBLE" /\ SpreadOf(o.result, CallerDays) > 0

\* the entries that a step of the loop appends for its task
StepEntries ==
    LET day == Head(frame.shifts_to_assign)[1]
        before == Get(frame.schedule, day, <<>>)
        after == Get(frame'.schedule, day, <<>>)
    IN  SubSeq(after, Len(before) + 1, Len(after))

\* C24 as stated: every entry that build_basic_schedule appends with an
\* employee e for a task (day, shift) has day outside e's unavailable_days,
\* shift outside e's unavailable_times, and e's assigned hours, when the
\* task was taken up, strictly below work_percentage/100 x
\* total_required_hours.  The availability part holds; the hours part fails
\* where the binary64 product exceeds the exact one: 28 percent of 50 hours
\* gives the target 14.000000000000002, and an employee with 14 hours is
\* picked once more.
C24_PickedOnlyBelowTarget ==
    [][(frame.pc = "basic_loop" /\ frame.shifts_to_assign # <<>>
        /\ frame' # frame) =>
        LET day == Head(frame.shifts_to_assign)[1]
            shift_name == Head(frame.shifts_to_assign)[2]
        IN  \A k \in 1..Len(StepEntries), e \in 1..Len(CallerEmployees) :
                StepEntries[k].employee = CallerEmployees[e].name =>
                    /\ day \notin Unavailable(CallerEmployees[e],
                                              "unavailable_days")
                    /\ shift_name \notin Unavailable(CallerEmployees[e],
                                                     "unavailable_times")
                    /\ 100 * frame.employee_info[CallerEmployees[e].name]
                                .assigned_hours
                       < Get(CallerEmployees[e], "work_percentage", 100)
                         * total_schedule_hours(CallerShifts, CallerDays)]_vars

\* the employees named by the entries a step appends, in order
StepPicks ==
    LET named == SelectSeq(StepEntries, LAMBDA en : en.employee # None)
    IN  [k \in 1..Len(named) |-> named[k].employee]

\* C25: in a step of build_basic_schedule's loop, the j-th employee entered
\* for the task is in the task's candidate pool, was not entered for the
\* task before, and has the least assigned hours of the candidates not yet
\* entered, the first of them in pool order where several have the least;
\* the shift's hours are added to the assigned hours of exactly the
\* employees entered, once each.  (The pool is rebuilt for every task, so
\* an employee entered for one shift of a day can be entered for another.)
C25_LeastLoadedPick ==
    [][(frame.pc = "basic_loop" /\ frame.shifts_to_assign # <<>>
        /\ frame' # frame) =>
        LET task == Head(frame.shifts_to_assign)
            pool == Candidates(frame, task[1], task[2])
            hours(n) == frame.employee_info[n].assigned_hours
            Position(n) == CHOOSE i \in 1..Len(pool) : pool[i] = n
        IN  /\ \A j \in 1..Len(StepPicks) :
                  LET left == {pool[i] : i \in 1..Len(pool)}
                              \ {StepPicks[i] : i \in 1..(j - 1)}
                  IN  /\ StepPicks[j] \in left
                      /\ \A n \in left :
                            \/ hours(StepPicks[j]) < hours(n)
                            \/ /\ hours(StepPicks[j]) = hours(n)
                               /\ Position(StepPicks[j]) <= Position(n)
            /\ \A n \in DOMAIN frame.employee_info :
                  frame'.employee_info[n].assigned_hours
                  = IF n \in Range(StepPicks) THEN hours(n) + task[3]
                    ELSE hours(n)]_vars

\* the loop has entered two employees for the Day shift of a day, the first
\* of the employees list first, and one employee for both shifts of that
\* day
C25_Witness ==
    /\ frame.pc = "basic_loop"
    /\ Len(CallerEmployees) = 2
    /\ \E day \in DOMAIN frame.schedule :
          /\ EntriesFor(frame.schedule, day, "Day")
             = <<[shift |-> "Day", employee |-> CallerEmployees[1].name],
                 [shift |-> "Day", employee |-> CallerEmployees[2].name]>>
          /\ \A other \in DOMAIN frame.schedule : other = day
          /\ \E e \in 1..2 :
                Works(frame.schedule, day, "Night", CallerEmployees[e].name)

\* the index of the caller's shift named n, and of the caller's employee
\* named n
ShiftIndex(n) == CHOOSE s \in 1..Len(CallerShifts) : CallerShifts[s].name = n
EmployeeIndex(n) ==
    CHOOSE e \in 1..Len(CallerEmployees) : CallerEmployees[e].name = n

\* C26: a schedule returned by build_optimized_schedule_cp has, for each
\* day, one entry {shift, employee} for every employee and shift whose
\* variable the solver set to 1 on that day and no other entry; the entries
\* of a day come in shift_structure order and, within a shift, in the order
\* of the employees list; no entry has the employee None, and a (day, shift)
\* that nobody is assigned to has no entry.
C26_OutputListsAssignments ==
    CpReturnedSchedule =>
        /\ DOMAIN result \subseteq Range(CallerDays)
        /\ \A d \in 1..Len(CallerDays) :
            LET entries == Get(result, CallerDays[d], <<>>)
                ones == {<<s, e>> \in (1..Len(CallerShifts))
                                      \X (1..Len(CallerEmployees)) :
                            <<d, s>> \in solver.X[e]}
                Pair(k) == <<ShiftIndex(entries[k].shift),
                             EmployeeIndex(entries[k].employee)>>
            IN  /\ Len(entries) = Cardinality(ones)
                /\ \A k \in 1..Len(entries) :
                      /\ DOMAIN entries[k] = {"shift", "employee"}
                      /\ entries[k].employee # None
                      /\ \E s \in 1..Len(CallerShifts) :
                            entries[k].shift = CallerShifts[s].name
                      /\ \E e \in 1..Len(CallerEmployees) :
                            entries[k].employee = CallerEmployees[e].name
                      /\ Pair(k) \in ones
                /\ \A k \in 1..(Len(entries) - 1) :
                      \/ Pair(k)[1] < Pair(k + 1)[1]
                      \/ /\ Pair(k)[1] = Pair(k + 1)[1]
                         /\ Pair(k)[2] < Pair(k + 1)[2]
                /\ \A s \in 1..Len(CallerShifts) :
                      (\A e \in 1..Len(CallerEmployees) :
                          <<d, s>> \notin solver.X[e])
                      => EntriesFor(result, CallerDays[d],
                                    CallerShifts[s].name) = <<>>

\* a schedule returned under relax_coverage=True that has both employees on
\* both shifts of the first day, and on the last day a shift that nobody is
\* assigned to
C26_Witness ==
    /\ CpReturnedSchedule
    /\ Arg(args, "relax_coverage")
    /\ Len(CallerEmployees) = 2
    /\ Len(Get(result, CallerDays[1], <<>>)) = 4
    /\ \E s \in 1..Len(CallerShifts) :
          EntriesFor(result, CallerDays[Len(CallerDays)],
                     CallerShifts[s].name) = <<>>

\* the tool call ids of the history that no later tool message answers
Unanswered ==
    {id \in UNION {Range(chat[i].tool_calls) :
                      i \in {i \in 1..Len(chat) :
                                "tool_calls" \in DOMAIN chat[i]}} :
        ~\E j \in 1..Len(chat) :
            /\ chat[j].role = "tool"
            /\ chat[j].tool_call_id = id
            /\ \E i \in 1..(j - 1) :
                  /\ "tool_calls" \in DOMAIN chat[i]
                  /\ id \in Range(chat[i].tool_calls)}

\* C27 as stated: whenever handle_user has a request to the LLM under way,
\* every tool call id of every assistant message of the history it sends
\* has a tool message later in that history, also for a reply with more
\* than one tool call, without a schema and when the tool raises.  It
\* fails for a reply with two tool calls: only msg.tool_calls[0] is run and
\* answered before the follow-up request.
C27_EveryToolCallAnswered ==
    frame.pc \in {"llm", "follow_up"} => Unanswered = {}

\* C28: the entries that a step of build_basic_schedule's loop appends for
\* its task, a shift with min_staff m (1 where the shift gives none), are k
\* entries that name k different employees, 0 <= k <= m, followed by one
\* entry with employee None if and only if k < m, and nothing else; so the
\* task has between 1 and m entries and at most one None, whatever the
\* order of the tasks.
C28_TaskEntriesShape ==
    [][(frame.pc = "basic_loop" /\ frame.shifts_to_assign # <<>>
        /\ frame' # frame) =>
        LET shift_name == Head(frame.shifts_to_assign)[2]
            m == Get(CallerShifts[ShiftIndex(shift_name)], "min_staff", 1)
            k == Len(StepPicks)
        IN  /\ k <= m
            /\ \A i, j \in 1..k : i # j => StepPicks[i] # StepPicks[j]
            /\ \A i \in 1..Len(StepEntries) :
                  StepEntries[i].shift = shift_name
            /\ \A i \in 1..k : StepEntries[i].employee = StepPicks[i]
            /\ Len(StepEntries) = IF k < m THEN k + 1 ELSE k
            /\ k < m => StepEntries[k + 1].employee = None
            /\ Len(StepEntries) >= 1
            /\ Len(StepEntries) <= m]_vars

\* the loop has recorded, on one day, a shift with min_staff 2 as one
\* employee followed by None and another shift as one employee alone
C28_Witness ==
    /\ frame.pc = "basic_loop"
    /\ \E day \in DOMAIN frame.schedule, s, t \in 1..Len(CallerShifts) :
          LET entries == EntriesFor(frame.schedule, day, CallerShifts[s].name)
              others == EntriesFor(frame.schedule, day, CallerShifts[t].name)
          IN  /\ Get(CallerShifts[s], "min_staff", 1) = 2
              /\ Len(entries) = 2
              /\ entries[1].employee # None
              /\ entries[2].employee = None
              /\ Get(CallerShifts[t], "min_staff", 1) = 1
              /\ Len(others) = 1
              /\ others[1].employee # None

\* C29 as stated: while build_basic_schedule works through its tasks, every
\* employee's assigned hours are strictly less than work_percentage/100 x
\* total_required_hours plus the hours of the longest shift, and an
\* employee with work_percentage 0 has no hours.  The second part holds;
\* the first fails where the binary64 target exceeds the exact one: with 28
\* percent of 50 hours the employee who has 14 hours is picked for another
\* 14-hour shift and stands at 28 = 14 + 14 hours.
C29_HoursBelowTargetPlusShift ==
    frame.pc = "basic_loop" =>
        \A e \in 1..Len(CallerEmployees) :
            LET assigned_hours ==
                    frame.employee_info[CallerEmployees[e].name].assigned_hours
                work_percentage ==
                    Get(CallerEmployees[e], "work_percentage", 100)
            IN  /\ \E s \in 1..Len(CallerShifts) :
                      100 * assigned_hours
                      < work_percentage
                        * total_schedule_hours(CallerShifts, CallerDays)
                        + 100 * CallerShifts[s].hours
                /\ work_percentage = 0 => assigned_hours = 0

\* C30: a direct call of build_optimized_schedule_cp leaves the caller's
\* schema with the same employees, shifts and days, leaves every employee
\* dict as it was, and changes a shift dict only by adding min_staff 1 where
\* the shift had no min_staff: a shift that had min_staff keeps its value
\* and every other field of every shift is kept.  A call on an object that
\* an earlier call was given changes nothing.
C30_OnlyMinStaffAdded ==
    [][/\ schema' = schema
       /\ DOMAIN heap' = DOMAIN heap
       /\ \A id \in DOMAIN heap :
             IF id \in Range(schema.shift_structure)
                /\ "min_staff" \notin DOMAIN heap[id]
             THEN /\ DOMAIN heap'[id] = DOMAIN heap[id] \cup {"min_staff"}
                  /\ heap'[id].min_staff = 1
                  /\ \A k \in DOMAIN heap[id] : heap'[id][k] = heap[id][k]
             ELSE heap'[id] = heap[id]
       /\ ncalls >= 1 => heap' = heap]_vars

\* after two calls the Day shift has the min_staff 1 it was given by the
\* first, the Night shift the min_staff 2 it came with, and a schedule was
\* returned
C30_Witness ==
    /\ ncalls = 2
    /\ invoked = <<"build_optimized_schedule_cp">>
    /\ Len(CallerShifts) = 2
    /\ Get(CallerShifts[1], "min_staff", 0) = 1
    /\ Get(CallerShifts[2], "min_staff", 0) = 2
    /\ Len(CallerEmployees) = 2
    /\ "error" \notin DOMAIN result

====
